---------------------------- MODULE Spec2Model ----------------------------
(***************************************************************************)
(* Model of the Yargitay search/fetch client of OguzhanSaman/scraperTool    *)
(* (turkishhelper/Decisions/views.py): the rate governor (_rate_limit,      *)
(* _handle_rate_limit), the two upstream operations (search_decisions,      *)
(* fetch_document_content) and the five view entry points that call them.   *)
(*                                                                         *)
(* Time is counted in whole seconds and kept in timers: the seconds since   *)
(* an instance's last_request_time and the seconds a sleep has left.  JSON  *)
(* values are tagged records; a JSON string is a sequence of tokens, so     *)
(* that Python's substring test `k in s` is containment of the token k.     *)
(***************************************************************************)
EXTENDS Integers, Sequences, FiniteSets, TLC

(***************************************************************************)
(* Bounds of the model.                                                     *)
(***************************************************************************)
NumCallers == 2      \* client instances the variables make room for
SinceCap   == 3      \* time.time() - self.last_request_time is counted up to here
MaxHits    == 2      \* doublings of the retry delay: the upstream stops rate-limiting
                     \* an instance whose delay has reached BaseRetryDelay * 2^MaxHits
MaxJitter  == 1      \* random.uniform(0, 1.0) in whole seconds: 0..MaxJitter
MaxLatency == 2      \* seconds the upstream takes to answer, at most (timeout=30 in the code)
MaxOversleep == 1    \* seconds time.sleep() may return late

(***************************************************************************)
(* Program constants.                                                       *)
(***************************************************************************)
MinDelay       == 2     \* self.min_delay = 2.0
BaseRetryDelay == 10    \* self.retry_delay = 10
TooManyStatus  == 429   \* response.status_code == 429
ErrorStatusMin == 400   \* raise_for_status: 4xx and 5xx raise HTTPError

Callers == 1..NumCallers

(***************************************************************************)
(* JSON values and the Python operations the code applies to them.          *)
(***************************************************************************)
JNull     == [t |-> "null"]
JNum(n)   == [t |-> "num", n |-> n]
JBool(b)  == [t |-> "bool", b |-> b]
JStr(s)   == [t |-> "str", s |-> s]
JList(l)  == [t |-> "list", l |-> l]
JObj(f)   == [t |-> "obj", f |-> f]
Str(w)    == JStr(<<w>>)
EmptyStr  == JStr(<<>>)
EmptyObj  == JObj(<<>>)
EmptyList == JList(<<>>)

\* The outcome of evaluating a Python expression: a value or a raised exception.
Ok(v)    == [ok |-> TRUE, v |-> v]
Raise(e) == [ok |-> FALSE, exc |-> e]

\* k in x
PyIn(k, x) ==
  CASE x.t = "obj"  -> Ok(k \in DOMAIN x.f)
    [] x.t = "list" -> Ok(\E i \in DOMAIN x.l : x.l[i] = Str(k))
    [] x.t = "str"  -> Ok(\E i \in DOMAIN x.s : x.s[i] = k)
    [] OTHER        -> Raise("TypeError")

\* x[k] for a string key k
PyIndex(x, k) ==
  CASE x.t = "obj" -> IF k \in DOMAIN x.f THEN Ok(x.f[k]) ELSE Raise("KeyError")
    [] OTHER       -> Raise("TypeError")

\* x.get(k, d)
PyGet(x, k, d) ==
  CASE x.t = "obj" -> Ok(IF k \in DOMAIN x.f THEN x.f[k] ELSE d)
    [] OTHER       -> Raise("AttributeError")

\* len(x)
PyLen(x) ==
  CASE x.t = "list" -> Ok(Len(x.l))
    [] x.t = "str"  -> Ok(Len(x.s))
    [] x.t = "obj"  -> Ok(Cardinality(DOMAIN x.f))
    [] OTHER        -> Raise("TypeError")

\* bool(x)
PyTruthy(x) ==
  CASE x.t = "null" -> FALSE
    [] x.t = "bool" -> x.b
    [] x.t = "num"  -> x.n # 0
    [] x.t = "str"  -> x.s # <<>>
    [] x.t = "list" -> x.l # <<>>
    [] x.t = "obj"  -> DOMAIN x.f # {}

\* x.get("metadata", {}).get("FMTY")
MetaFmty(x) ==
  LET m == PyGet(x, "metadata", EmptyObj)
  IN  IF m.ok THEN PyGet(m.v, "FMTY", JNull) ELSE m

(***************************************************************************)
(* The response text.  response.text is the body as sent; its tokens are    *)
(* the tokens of every key and string in it.  str.upper() maps each token   *)
(* to its upper-case form.                                                  *)
(***************************************************************************)
Raw(s) == [t |-> "raw", s |-> s]      \* a body that is not valid JSON

RECURSIVE Tokens(_)
Tokens(x) ==
  CASE x.t = "str"  -> {x.s[i] : i \in DOMAIN x.s}
    [] x.t = "raw"  -> {x.s[i] : i \in DOMAIN x.s}
    [] x.t = "list" -> UNION {Tokens(x.l[i]) : i \in DOMAIN x.l}
    [] x.t = "obj"  -> DOMAIN x.f \cup UNION {Tokens(x.f[k]) : k \in DOMAIN x.f}
    [] OTHER        -> {}

\* str.upper() on one token
UpperToken(w) ==
  CASE w = "too many requests" -> "TOO MANY REQUESTS"
    [] w = "Too Many Requests" -> "TOO MANY REQUESTS"
    [] w = "too many"          -> "TOO MANY"
    [] w = "html"              -> "HTML"
    [] w = "content"           -> "CONTENT"
    [] w = "data"              -> "DATA"
    [] w = "metadata"          -> "METADATA"
    [] w = "msg"               -> "MSG"
    [] w = "id"                -> "ID"
    [] w = "d1"                -> "D1"
    [] w = "d2"                -> "D2"
    [] w = "title"             -> "TITLE"
    [] w = "recordsTotal"      -> "RECORDSTOTAL"
    [] w = "recordsFiltered"   -> "RECORDSFILTERED"
    [] OTHER                   -> w

\* response.text.upper()
UpperText(body) == {UpperToken(w) : w \in Tokens(body)}

\* Mutant: only the status tells a rate-limited response.
IsRateLimitedStatusOnly(r) == r.status = TooManyStatus

\* Mutant: the phrase is looked for in the text as sent, not in its upper case.
IsRateLimitedExactCase(r) ==
  r.status = TooManyStatus \/ "TOO MANY REQUESTS" \in Tokens(r.body)

\* response.status_code == 429 or "TOO MANY REQUESTS" in response.text.upper()
IsRateLimited(r) ==
  r.status = TooManyStatus \/ "TOO MANY REQUESTS" \in UpperText(r.body)

(***************************************************************************)
(* Classification of a parsed search body (search_decisions, lines 97-118). *)
(***************************************************************************)
SearchResult(d, t, f) ==
  [decisions |-> d, total_records |-> t, filtered_records |-> f]
EmptySearchResult == SearchResult(EmptyList, JNum(0), JNum(0))

Classified(kind, v) == [ok |-> TRUE, kind |-> kind, v |-> v]

\* `'data' in data and 'data' in data['data']`
SearchHasSuccessShape(data) ==
  LET hasData == PyIn("data", data)
  IN  IF ~hasData.ok THEN hasData
      ELSE IF ~hasData.v THEN Ok(FALSE)
      ELSE LET inner == PyIndex(data, "data")
           IN  IF ~inner.ok THEN inner ELSE PyIn("data", inner.v)

\* Mutant: recordsFiltered, when absent, is taken from recordsTotal.
SearchSuccessFilteredFromTotal(data) ==
  LET inner == PyIndex(data, "data")
  IN  IF ~inner.ok THEN inner
      ELSE LET decisions == PyIndex(inner.v, "data")
           IN  IF ~decisions.ok THEN decisions
               ELSE LET n == PyLen(decisions.v)
                        total == PyGet(inner.v, "recordsTotal", JNum(n.v)).v
                    IN  IF ~n.ok THEN n
                        ELSE Classified("success",
                               SearchResult(decisions.v, total,
                                 PyGet(inner.v, "recordsFiltered", total).v))

\* the success branch, lines 101-105
SearchSuccess(data) ==
  LET inner == PyIndex(data, "data")
  IN  IF ~inner.ok THEN inner
      ELSE LET decisions == PyIndex(inner.v, "data")
           IN  IF ~decisions.ok THEN decisions
               ELSE LET n == PyLen(decisions.v)
                    IN  IF ~n.ok THEN n
                        ELSE Classified("success",
                               SearchResult(decisions.v,
                                 PyGet(inner.v, "recordsTotal", JNum(n.v)).v,
                                 PyGet(inner.v, "recordsFiltered", JNum(n.v)).v))

\* the elif/else chain, lines 107-118
SearchErrorBranches(data) ==
  LET hasMeta == PyIn("metadata", data)
  IN  IF ~hasMeta.ok THEN hasMeta
      ELSE IF ~hasMeta.v THEN Classified("unexpected", EmptySearchResult)
      ELSE LET fmty == MetaFmty(data)
           IN  IF ~fmty.ok THEN fmty
               ELSE IF fmty.v = Str("ERROR")
                      THEN Classified("error", EmptySearchResult)
               ELSE IF fmty.v # JNull
                      THEN Classified("other_error", EmptySearchResult)
               ELSE Classified("unexpected", EmptySearchResult)

\* Mutant: the error marker is tested before the success shape.
SearchClassifyMarkerFirst(data) ==
  LET fmty == MetaFmty(data)
      shape == SearchHasSuccessShape(data)
  IN  IF ~fmty.ok THEN fmty
      ELSE IF fmty.v # JNull THEN SearchErrorBranches(data)
      ELSE IF ~shape.ok THEN shape
      ELSE IF shape.v THEN SearchSuccess(data)
      ELSE SearchErrorBranches(data)

SearchClassify(data) ==
  LET shape == SearchHasSuccessShape(data)
  IN  IF ~shape.ok THEN shape
      ELSE IF shape.v THEN SearchSuccess(data)
      ELSE SearchErrorBranches(data)

(***************************************************************************)
(* Classification of a parsed fetch body (fetch_document_content, lines     *)
(* 153-172).  None is JNull.                                                *)
(***************************************************************************)
FetchSuccess(data) ==
  LET content == PyGet(data, "data", EmptyStr)
  IN  IF ~content.ok THEN content
      ELSE LET n == PyLen(content.v)      \* the log line takes len(content)
           IN  IF ~n.ok THEN n ELSE Classified("success", content.v)

FetchClassify(data) ==
  LET fmty == MetaFmty(data)
  IN  IF ~fmty.ok THEN fmty
      ELSE IF fmty.v = Str("SUCCESS") THEN FetchSuccess(data)
      ELSE IF fmty.v = Str("ERROR") THEN Classified("error", JNull)
      ELSE IF fmty.v # JNull THEN Classified("other_error", JNull)
      ELSE Classified("unexpected", JNull)

(***************************************************************************)
(* What the try block makes of a response that is not rate-limited:         *)
(* raise_for_status(), response.json(), the classification, and the two     *)
(* except clauses (RequestException, JSONDecodeError).                      *)
(***************************************************************************)
EmptyOf(opname) == IF opname = "search" THEN EmptySearchResult ELSE JNull

\* Mutant: raise_for_status() is left out.
HandleResponseAnyStatus(opname, r) ==
  IF r.body.t = "raw" THEN Classified("bad_json", EmptyOf(opname))
  ELSE IF opname = "search" THEN SearchClassify(r.body)
  ELSE FetchClassify(r.body)

HandleResponse(opname, r) ==
  IF r.status >= ErrorStatusMin THEN Classified("http_error", EmptyOf(opname))
  ELSE IF r.body.t = "raw" THEN Classified("bad_json", EmptyOf(opname))
  ELSE IF opname = "search" THEN SearchClassify(r.body)
  ELSE FetchClassify(r.body)

(***************************************************************************)
(* Caller input and its normalisation (post, get, search_decisions_api).    *)
(* A keyword or a decision id is a sequence of characters; "absent" is a    *)
(* field the request does not carry and "junk" a value that is no integer.  *)
(***************************************************************************)
RECURSIVE LStrip(_)
LStrip(s) == IF s # <<>> /\ Head(s) = " " THEN LStrip(Tail(s)) ELSE s

RECURSIVE RStrip(_)
RStrip(s) ==
  IF s # <<>> /\ s[Len(s)] = " " THEN RStrip(SubSeq(s, 1, Len(s) - 1)) ELSE s

\* Mutant: the keyword is not stripped.
StripNothing(s) == s

\* str.strip()
Strip(s) == RStrip(LStrip(s))

Abs(x) == IF x < 0 THEN -x ELSE x

valid_page_sizes == <<10, 25, 50, 100>>

InValidPageSizes(ps) == \E i \in DOMAIN valid_page_sizes : valid_page_sizes[i] = ps

\* Mutant: the last minimum instead of the first.
ClosestPageSizeLast(ps) ==
  LET key(i) == Abs(valid_page_sizes[i] - ps)
      last   == CHOOSE i \in DOMAIN valid_page_sizes :
                  /\ \A j \in DOMAIN valid_page_sizes : key(i) <= key(j)
                  /\ \A j \in (i + 1)..Len(valid_page_sizes) : key(j) > key(i)
  IN  valid_page_sizes[last]

\* min(valid_page_sizes, key=lambda x: abs(x - page_size)): the first minimum
ClosestPageSize(ps) ==
  LET key(i) == Abs(valid_page_sizes[i] - ps)
      first  == CHOOSE i \in DOMAIN valid_page_sizes :
                  /\ \A j \in DOMAIN valid_page_sizes : key(i) <= key(j)
                  /\ \A j \in 1..(i - 1) : key(j) > key(i)
  IN  valid_page_sizes[first]

\* if page_size not in valid_page_sizes: page_size = closest_size
NormalizePageSize(ps) == IF InValidPageSizes(ps) THEN ps ELSE ClosestPageSize(ps)

\* Mutant: the clamp lets page 0 through.
ClampPageNumberBelowZero(pn) == IF pn < 0 THEN 1 ELSE pn

\* if page_number < 1: page_number = 1
ClampPageNumber(pn) == IF pn < 1 THEN 1 ELSE pn

\* A request field: absent, a value, or junk (a value of the wrong type).
Absent == [k |-> "absent"]
Junk   == [k |-> "junk"]
Val(v) == [k |-> "val", v |-> v]

\* data.get(field, default)
FieldOr(f, default) == IF f.k = "absent" THEN default ELSE f.v

\* request.GET.get('fetch_content', 'false').lower() == 'true'
LowerFlag(w) ==
  CASE w = "True" -> "true"
    [] w = "TRUE" -> "true"
    [] w = "False" -> "false"
    [] OTHER -> w
GetFetchFlag(f) == LowerFlag(FieldOr(f, "false")) = "true"

\* the truth value of data.get('fetch_content', False) in `if fetch_content and decisions`
\* (the JSON booleans true and false)
PostFetchFlag(f) == FieldOr(f, "false") = "true"

SearchViews  == {"post", "get", "api"}
ContentViews == {"content", "content_get"}
BodyViews    == {"post", "api", "content"}      \* views that json.loads(request.body)

\* What a view does with a request before it touches the client: a rejection
\* (a JsonResponse with an error status) or the call it goes on to make.
Reject(status, error) == [kind |-> "reject", status |-> status, error |-> error]
GoSearch(kw, pn, ps, fc) ==
  [kind |-> "search", keyword |-> kw, page_number |-> pn, page_size |-> ps,
   fetch_content |-> fc]
GoFetch(id) == [kind |-> "fetch", id |-> id]

\* post (lines 194-220) and search_decisions_api (lines 334-363)
EntryPost(r) ==
  IF ~r.valid_json THEN Reject(400, "Invalid JSON payload")
  ELSE IF r.keyword.k = "junk" THEN Reject(500, "Internal server error")
  ELSE LET keyword == Strip(FieldOr(r.keyword, <<>>))
       IN  IF keyword = <<>> THEN Reject(400, "Keyword is required")
           ELSE IF r.page_number.k = "junk" \/ r.page_size.k = "junk"
                  THEN Reject(500, "Internal server error")
           ELSE GoSearch(keyword,
                         ClampPageNumber(FieldOr(r.page_number, 1)),
                         NormalizePageSize(FieldOr(r.page_size, 10)),
                         PostFetchFlag(r.fetch_content))

\* get (lines 263-293); a query parameter is always a string, int() raises
\* ValueError on junk
EntryGet(r) ==
  LET keyword == Strip(FieldOr(r.keyword, <<>>))
  IN  IF keyword = <<>> THEN Reject(400, "Keyword parameter is required")
      ELSE IF r.page_number.k = "junk" \/ r.page_size.k = "junk"
             THEN Reject(400, "Invalid parameter value")
      ELSE GoSearch(keyword,
                    ClampPageNumber(FieldOr(r.page_number, 1)),
                    NormalizePageSize(FieldOr(r.page_size, 10)),
                    GetFetchFlag(r.fetch_content))

\* get_decision_content (lines 415-428)
EntryContent(r) ==
  IF ~r.valid_json THEN Reject(400, "Invalid JSON payload")
  ELSE IF r.decision_id.k = "junk" THEN Reject(500, "Internal server error")
  ELSE LET decision_id == Strip(FieldOr(r.decision_id, <<>>))
       IN  IF decision_id = <<>> THEN Reject(400, "Decision ID is required")
           ELSE GoFetch(JStr(decision_id))

\* get_decision_content_get (lines 472-484)
EntryContentGet(r) ==
  LET decision_id == Strip(FieldOr(r.decision_id, <<>>))
  IN  IF decision_id = <<>> THEN Reject(400, "Decision ID parameter is required")
      ELSE GoFetch(JStr(decision_id))

Entry(r) ==
  CASE r.view = "post"        -> EntryPost(r)
    [] r.view = "api"         -> EntryPost(r)
    [] r.view = "get"         -> EntryGet(r)
    [] r.view = "content"     -> EntryContent(r)
    [] r.view = "content_get" -> EntryContentGet(r)

\* search_decisions_api, get_decision_content and get_decision_content_get
\* build their own YargitaySearchView(); post and get run on self.
ConstructsScraper(view) == view \in {"api", "content", "content_get"}

(***************************************************************************)
(* The enrichment loop of post, get and search_decisions_api:               *)
(*   for decision in decisions:                                             *)
(*       decision_id = decision.get('id')                                   *)
(*       if decision_id: content = fetch_document_content(decision_id) ...  *)
(***************************************************************************)
\* Mutant: the loop fetches for every decision, with or without an id.
RECURSIVE NextStopNoSkip(_, _)
NextStopNoSkip(decisions, i) ==
  IF decisions.t # "list"
    THEN [kind |-> "raise", exc |-> "AttributeError"]
  ELSE IF i > Len(decisions.l) THEN [kind |-> "end"]
  ELSE LET id == PyGet(decisions.l[i], "id", JNull)
       IN  IF ~id.ok THEN [kind |-> "raise", exc |-> id.exc]
           ELSE [kind |-> "fetch", idx |-> i, id |-> id.v]

\* From position i on: the next decision to fetch, the end of the loop, or the
\* exception decision.get raises on a decision that is no object.
RECURSIVE NextStop(_, _)
NextStop(decisions, i) ==
  IF decisions.t # "list"
    THEN [kind |-> "raise", exc |-> "AttributeError"]   \* iterating a str or a dict yields str
  ELSE IF i > Len(decisions.l) THEN [kind |-> "end"]
  ELSE LET id == PyGet(decisions.l[i], "id", JNull)
       IN  IF ~id.ok THEN [kind |-> "raise", exc |-> id.exc]
           ELSE IF PyTruthy(id.v) THEN [kind |-> "fetch", idx |-> i, id |-> id.v]
           ELSE NextStop(decisions, i + 1)

\* decision['document_content'] = content
SetItem(x, k, v) ==
  JObj([key \in DOMAIN x.f \cup {k} |-> IF key = k THEN v ELSE x.f[key]])

\* if content: decision['document_content'] = content
StoreContent(decisions, i, content) ==
  IF PyTruthy(content)
    THEN JList([decisions.l EXCEPT ![i] = SetItem(@, "document_content", content)])
    ELSE decisions

(***************************************************************************)
(* The upstream service: any of these answers to any request.               *)
(***************************************************************************)
D1    == JObj([id |-> Str("d1")])
D2    == JObj([id |-> Str("d2")])
DNoId == JObj([title |-> Str("title")])
DEmptyId == JObj([id |-> EmptyStr])

MetaError   == JObj([FMTY |-> Str("ERROR"), FMTE |-> Str("msg")])
MetaWarn    == JObj([FMTY |-> Str("WARN")])
MetaSuccess == JObj([FMTY |-> Str("SUCCESS")])

SearchBodies ==
  { JObj([data |-> JObj([data |-> EmptyList, recordsTotal |-> JNum(0),
                         recordsFiltered |-> JNum(0)])]),
    JObj([data |-> JObj([data |-> JList(<<D1, DNoId, D2>>), recordsTotal |-> JNum(42)])]),
    JObj([data |-> JObj([data |-> JList(<<D1>>), recordsTotal |-> JNum(7),
                         recordsFiltered |-> JNum(5)])]),
    JObj([data |-> JObj([data |-> JList(<<DEmptyId, D2>>)])]),
    JObj([data |-> JObj([data |-> JList(<<D1>>)]), metadata |-> MetaError]),
    JObj([data |-> JObj([data |-> JList(<<JObj([id |-> Str("Too Many Requests")])>>)])]),
    JObj([data |-> JObj([data |-> JNull])]),
    JObj([data |-> JObj([data |-> Str("content")])]),
    JObj([data |-> JObj([data |-> JList(<<Str("content")>>)])]),
    JObj([data |-> JNull]),
    JObj([data |-> JNull, metadata |-> MetaError]),
    JObj([data |-> EmptyObj, metadata |-> MetaError]) }

ErrorBodies ==
  { JObj([metadata |-> MetaError]),
    JObj([metadata |-> MetaWarn]),
    JObj([metadata |-> EmptyObj]),
    JObj([metadata |-> JNull]),
    JObj([metadata |-> JObj([FMTY |-> JNull])]),
    EmptyObj, EmptyList, JNull, JNum(5), Str("data"), JList(<<Str("metadata")>>),
    Raw(<<"html">>), Raw(<<"too many requests">>), Raw(<<"too many">>) }

FetchBodies ==
  { JObj([metadata |-> MetaSuccess, data |-> Str("content")]),
    JObj([metadata |-> MetaSuccess, data |-> EmptyStr]),
    JObj([metadata |-> MetaSuccess]),
    JObj([metadata |-> MetaSuccess, data |-> JNull]),
    JObj([metadata |-> MetaSuccess, data |-> Str("TOO MANY REQUESTS")]),
    JObj([metadata |-> MetaError, data |-> Str("content")]) }

Bodies   == SearchBodies \cup ErrorBodies \cup FetchBodies
Responses ==
  [status : {200}, body : Bodies]
  \cup [status : {429, 500},
        body : {JObj([metadata |-> MetaError]), Raw(<<"html">>), Raw(<<"too many requests">>),
                JObj([metadata |-> MetaSuccess, data |-> Str("content")]),
                JObj([data |-> JObj([data |-> JList(<<D1>>)])])}]

(***************************************************************************)
(* Caller requests.                                                         *)
(***************************************************************************)
MaxKeywordLen == 2

RECURSIVE SeqsUpTo(_, _)
SeqsUpTo(S, n) ==
  IF n = 0 THEN {<<>>}
  ELSE LET shorter == SeqsUpTo(S, n - 1)
       IN  shorter \cup {Append(q, x) : q \in shorter, x \in S}

Keywords == SeqsUpTo({" ", "k"}, MaxKeywordLen)

KeywordFields    == {Absent} \cup {Val(k) : k \in Keywords}
PageNumberFields == {Absent, Junk} \cup {Val(n) : n \in {-1, 0, 1, 2}}
PageSizeFields   ==
  {Absent, Junk} \cup {Val(n) : n \in {-3, 0, 10, 17, 18, 25, 37, 38, 50, 75, 76, 100, 120}}
PostFlagFields   == {Absent, Val("true"), Val("false")}
GetFlagFields    == {Absent, Val("true"), Val("True"), Val("false"), Val("1")}

SearchRequest(view, kw, pn, ps, fc) ==
  [view |-> view, valid_json |-> TRUE, keyword |-> kw, page_number |-> pn,
   page_size |-> ps, fetch_content |-> fc, decision_id |-> Absent]
ContentRequest(view, id) ==
  [view |-> view, valid_json |-> TRUE, keyword |-> Absent, page_number |-> Absent,
   page_size |-> Absent, fetch_content |-> Absent, decision_id |-> id]

K == Val(<<"k">>)

\* Each field varied over its whole set, the others at an ordinary value.
SearchRequests ==
  UNION { {SearchRequest(v, kw, Val(1), Val(10), Val("false")) : kw \in KeywordFields}
          \cup {SearchRequest(v, K, pn, Val(17), Val("false")) : pn \in PageNumberFields}
          \cup {SearchRequest(v, K, Val(0), ps, Val("false")) : ps \in PageSizeFields}
          \cup {SearchRequest(v, K, Val(1), Val(10), fc) :
                  fc \in IF v = "get" THEN GetFlagFields ELSE PostFlagFields}
          : v \in SearchViews }

ContentRequests ==
  {ContentRequest(v, id) : v \in ContentViews, id \in KeywordFields}

BadRequests ==
  {[SearchRequest(v, Junk, Val(1), Val(10), Absent) EXCEPT !.valid_json = b] :
     v \in {"post", "api"}, b \in BOOLEAN}
  \cup {[ContentRequest("content", Junk) EXCEPT !.valid_json = b] : b \in BOOLEAN}

Requests == SearchRequests \cup ContentRequests \cup BadRequests

(***************************************************************************)
(* State.                                                                   *)
(***************************************************************************)
VARIABLES
  time_since_last,    \* time.time() - self.last_request_time of each caller's instance,
                      \* counted up to SinceCap
  retry_delay,        \* self.retry_delay of each caller's client instance
  pc,                 \* where each caller's handler stands
  timer,              \* the seconds the caller's time.sleep() has left
  req,                \* the request the handler was given
  loc,                \* the handler's locals
  op,                 \* the upstream operation in progress, with its arguments
  sent,               \* the request last dispatched upstream
  http,               \* the JsonResponse the handler returned
  h,                  \* history of the current request and instance
  gazette,            \* a call of scrape_resmi_gazete_content: the table of manual
                      \* entries, the website, the call's position and locals
  wiki                \* the list of one "Today in History" section on its way
                      \* through scrape_wikipedia_today_in_history

decisionVars == <<time_since_last, retry_delay, pc, timer, req, loc, op, sent, http, h>>

vars == <<time_since_last, retry_delay, pc, timer, req, loc, op, sent, http, h,
          gazette, wiki>>

NoReq  == [view |-> "none"]
NoOp   == [name |-> "none"]
NoSent == [op |-> "none"]
NoHttp == [status |-> 0]
NoGazette == [pc |-> "none"]    \* scrape_resmi_gazete_content is not called
NoWiki    == [pc |-> "none"]    \* scrape_wikipedia_today_in_history is not called
NoLoc  == [keyword |-> <<>>, page_number |-> 0, page_size |-> 0, fetch_content |-> FALSE,
           decisions |-> EmptyList, total_records |-> JNum(0),
           filtered_records |-> JNum(0), idx |-> 0]

\* History of the instance: whether it has dispatched, and the seconds between
\* its last two dispatches, counted up to SinceCap (-1: fewer than two).  History of the request: dispatches and sleeps so
\* far; for the operation in progress, its dispatches and the rate-limited
\* answers it got in a row; the classification of the last upstream outcome;
\* the retry delay in force when the last rate-limited answer came; what the
\* upstream did last (an answer, or an exception of the transport), the
\* operation that was, the value it returned and the exception that left it.
\* History of the instance's backoff: the rate-limited answers it got and the
\* seconds of backoff it slept since its retry delay was last the base; the
\* status of the last rate-limited answer of the operation in progress.
\* History of the request: the calls of fetch_document_content its
\* enrichment loop has made.
NoAnswer  == [kind |-> "none"]
NoResult  == [t |-> "none"]
Answered(r) == [kind |-> "response", status |-> r.status, body |-> r.body]
TransportException == [kind |-> "exception"]

NoHistory ==
  [dispatched |-> FALSE, lastGap |-> -1,
   nDispatch |-> 0, hits |-> 0, opDispatch |-> 0, lastClass |-> "none",
   delayAtHit |-> 0, lastAnswer |-> NoAnswer, lastOp |-> "none",
   result |-> NoResult, raised |-> "none",
   burst |-> 0, slept |-> 0, hitStatus |-> 0, nFetch |-> 0]

NewRequestHistory(hh) ==
  [NoHistory EXCEPT !.dispatched = hh.dispatched, !.lastGap = hh.lastGap,
                    !.burst = hh.burst, !.slept = hh.slept]

\* __init__ (lines 29-33) gives last_request_time = 0, which is further back
\* than any count, and retry_delay = 10.
DecisionsInit ==
  /\ time_since_last = [c \in Callers |-> SinceCap]
  /\ retry_delay = [c \in Callers |-> BaseRetryDelay]
  /\ pc = [c \in Callers |-> "idle"]
  /\ timer = [c \in Callers |-> 0]
  /\ req = [c \in Callers |-> NoReq]
  /\ loc = [c \in Callers |-> NoLoc]
  /\ op = [c \in Callers |-> NoOp]
  /\ sent = [c \in Callers |-> NoSent]
  /\ http = [c \in Callers |-> NoHttp]
  /\ h = [c \in Callers |-> NoHistory]

Init == DecisionsInit /\ gazette = NoGazette /\ wiki = NoWiki

(***************************************************************************)
(* The rate governor.                                                       *)
(***************************************************************************)
\* Mutant: the throttle compares against one second less.
NeedsSleepLate(since) == since < MinDelay - 1

\* if time_since_last < self.min_delay
NeedsSleep(since) == since < MinDelay

\* sleep_time = self.min_delay - time_since_last + random.uniform(0, 1.0)
SleepTime(since, jitter) == MinDelay - since + jitter

\* Mutant: the delay is not reset by an answer that is not rate-limited.
RetryDelayNoReset(limited, delay) == IF limited THEN delay * 2 ELSE delay

\* Mutant: the reset takes min_delay for the base retry delay.
RetryDelayResetLow(limited, delay) == IF limited THEN delay * 2 ELSE MinDelay

\* _handle_rate_limit: self.retry_delay *= 2, or self.retry_delay = 10
RetryDelayAfter(limited, delay) == IF limited THEN delay * 2 ELSE BaseRetryDelay

\* The payload search_decisions posts and the parameters fetch_document_content sends.
Payload(o) ==
  IF o.name = "search"
    THEN [op |-> "search", aranan |-> o.keyword, arananKelime |-> o.keyword,
          pageSize |-> o.page_size, pageNumber |-> o.page_number]
    ELSE [op |-> "fetch", id |-> o.id]

\* The end of _rate_limit (self.last_request_time = time.time()) and the
\* session.post / session.get that follows it.
Dispatch(c) ==
  /\ time_since_last' = [time_since_last EXCEPT ![c] = 0]
  /\ sent' = [sent EXCEPT ![c] = Payload(op[c])]
  /\ pc' = [pc EXCEPT ![c] = "awaiting"]
  /\ timer' = [timer EXCEPT ![c] = 0]
  /\ h' = [h EXCEPT ![c].lastGap = IF h[c].dispatched THEN time_since_last[c] ELSE -1,
                    ![c].dispatched = TRUE,
                    ![c].nDispatch = @ + 1,
                    ![c].opDispatch = @ + 1]
  /\ UNCHANGED <<retry_delay, req, loc, op, http>>

\* _rate_limit, entered at the top of search_decisions and fetch_document_content
RateLimit(c) ==
  /\ pc[c] = "call"
  /\ IF NeedsSleep(time_since_last[c])
       THEN \E jitter \in 0..MaxJitter :
              /\ timer' = [timer EXCEPT ![c] = SleepTime(time_since_last[c], jitter)]
              /\ pc' = [pc EXCEPT ![c] = "rl_sleep"]
              /\ UNCHANGED <<time_since_last, retry_delay, req, loc, op, sent, http, h>>
       ELSE Dispatch(c)
  /\ UNCHANGED <<gazette, wiki>>

\* time.sleep(sleep_time) returns
WakeRateLimit(c) ==
  /\ pc[c] = "rl_sleep"
  /\ timer[c] <= 0
  /\ Dispatch(c)
  /\ UNCHANGED <<gazette, wiki>>

(***************************************************************************)
(* The views: what follows the return of an upstream operation (post lines  *)
(* 222-250, get 295-323, search_decisions_api 365-393, get_decision_content *)
(* 430-452, get_decision_content_get 486-504).                              *)
(***************************************************************************)
ErrorResponse(status, error) == [status |-> status, error |-> error]

\* Mutant: total_results is taken from total_records.
SearchResponseCountsRecords(l) ==
  [status |-> 200, success |-> TRUE, keyword |-> l.keyword,
   page_number |-> l.page_number, page_size |-> l.page_size,
   total_results |-> IF l.total_records.t = "num" THEN l.total_records.n ELSE 0,
   total_records |-> l.total_records,
   filtered_records |-> l.filtered_records, decisions |-> l.decisions]

\* the JsonResponse of post, get and search_decisions_api
SearchResponse(l) ==
  [status |-> 200, success |-> TRUE, keyword |-> l.keyword,
   page_number |-> l.page_number, page_size |-> l.page_size,
   total_results |-> PyLen(l.decisions).v, total_records |-> l.total_records,
   filtered_records |-> l.filtered_records, decisions |-> l.decisions]

\* the JsonResponse of get_decision_content and get_decision_content_get
ContentResponse(id, content) ==
  IF content # JNull
    THEN [status |-> 200, success |-> TRUE, decision_id |-> id, content |-> content,
          content_length |-> PyLen(content).v]
    ELSE [status |-> 404, success |-> FALSE, decision_id |-> id,
          error |-> "Failed to fetch document content"]

\* The handler returns its response.
Return(c, response, l, hh) ==
  /\ http' = [http EXCEPT ![c] = response]
  /\ pc' = [pc EXCEPT ![c] = "done"]
  /\ op' = [op EXCEPT ![c] = NoOp]
  /\ loc' = [loc EXCEPT ![c] = l]
  /\ h' = [h EXCEPT ![c] = hh]

\* The enrichment loop from position i on.
Enrich(c, l, i, hh) ==
  LET stop == NextStop(l.decisions, i)
  IN  CASE stop.kind = "raise" ->
             Return(c, ErrorResponse(500, "Internal server error"), l, hh)
        [] stop.kind = "end" -> Return(c, SearchResponse(l), l, hh)
        [] stop.kind = "fetch" ->
             /\ op' = [op EXCEPT ![c] = [name |-> "fetch", id |-> stop.id]]
             /\ loc' = [loc EXCEPT ![c] = [l EXCEPT !.idx = stop.idx]]
             /\ pc' = [pc EXCEPT ![c] = "call"]
             /\ h' = [h EXCEPT ![c] = [hh EXCEPT !.hits = 0, !.opDispatch = 0,
                                                 !.nFetch = @ + 1]]
             /\ UNCHANGED http

\* The view carries on after the operation it called returned or raised.
Resume(c) ==
  /\ pc[c] = "returned"
  /\ LET hh == [h[c] EXCEPT !.lastAnswer = NoAnswer, !.result = NoResult,
                            !.hitStatus = 0]
     IN  IF h[c].raised # "none"
           THEN Return(c, ErrorResponse(500, "Internal server error"), loc[c], hh)
         ELSE IF op[c].name = "search"
           THEN LET l == [loc[c] EXCEPT !.decisions = h[c].result.decisions,
                                        !.total_records = h[c].result.total_records,
                                        !.filtered_records = h[c].result.filtered_records]
                IN  IF l.fetch_content /\ PyTruthy(l.decisions)
                      THEN Enrich(c, l, 1, hh)
                      ELSE Return(c, SearchResponse(l), l, hh)
         ELSE IF req[c].view \in SearchViews
           THEN Enrich(c, [loc[c] EXCEPT !.decisions =
                                     StoreContent(@, loc[c].idx, h[c].result)],
                       loc[c].idx + 1, hh)
         ELSE Return(c, ContentResponse(op[c].id, h[c].result), loc[c], hh)
  /\ UNCHANGED <<time_since_last, retry_delay, timer, req, sent>>
  /\ UNCHANGED <<gazette, wiki>>

(***************************************************************************)
(* The upstream's answers (search_decisions lines 89-125,                   *)
(* fetch_document_content lines 145-179).                                   *)
(***************************************************************************)
\* The operation in progress ends with `out`: a classified value, or an
\* exception neither except clause catches; `reset` tells whether the retry
\* delay was set back to the base on the way.
Complete(c, reset, out, answer) ==
  /\ pc' = [pc EXCEPT ![c] = "returned"]
  /\ h' = [h EXCEPT ![c].burst = IF reset THEN 0 ELSE @,
                    ![c].slept = IF reset THEN 0 ELSE @,
                    ![c].lastClass = IF out.ok THEN out.kind ELSE "raised",
                    ![c].raised = IF out.ok THEN "none" ELSE out.exc,
                    ![c].result = IF out.ok THEN out.v ELSE NoResult,
                    ![c].lastAnswer = answer,
                    ![c].lastOp = op[c].name]
  /\ UNCHANGED <<req, loc, op, sent, http>>

\* A rate-limited answer: _handle_rate_limit takes its first branch.
AnswerRateLimited(c, r, maxHits) ==
  /\ pc[c] = "awaiting"
  /\ IsRateLimited(r)
  /\ retry_delay[c] < BaseRetryDelay * 2^maxHits
  /\ pc' = [pc EXCEPT ![c] = "limited"]
  /\ h' = [h EXCEPT ![c].hits = @ + 1, ![c].burst = @ + 1, ![c].hitStatus = r.status,
                    ![c].lastClass = "rate_limited", ![c].delayAtHit = retry_delay[c],
                    ![c].lastAnswer = Answered(r), ![c].lastOp = op[c].name,
                    ![c].result = NoResult, ![c].raised = "none"]
  /\ UNCHANGED <<time_since_last, retry_delay, timer, req, loc, op, sent, http>>
  /\ UNCHANGED <<gazette, wiki>>

\* Mutant: the delay is doubled before the sleep, which takes the new value.
BackoffSleepsDoubled(c) ==
  /\ pc[c] = "limited"
  /\ pc' = [pc EXCEPT ![c] = "backoff"]
  /\ timer' = [timer EXCEPT ![c] = 2 * retry_delay[c]]
  /\ h' = [h EXCEPT ![c].lastAnswer = NoAnswer, ![c].slept = @ + 2 * retry_delay[c]]
  /\ UNCHANGED <<time_since_last, retry_delay, req, loc, op, sent, http>>
  /\ UNCHANGED <<gazette, wiki>>

\* time.sleep(self.retry_delay) starts.
Backoff(c) ==
  /\ pc[c] = "limited"
  /\ pc' = [pc EXCEPT ![c] = "backoff"]
  /\ timer' = [timer EXCEPT ![c] = retry_delay[c]]
  /\ h' = [h EXCEPT ![c].lastAnswer = NoAnswer, ![c].slept = @ + retry_delay[c]]
  /\ UNCHANGED <<time_since_last, retry_delay, req, loc, op, sent, http>>
  /\ UNCHANGED <<gazette, wiki>>

\* Mutant: the retry is sent straight after the backoff, _rate_limit left out.
WakeBackoffSendsAtOnce(c) ==
  /\ pc[c] = "backoff"
  /\ timer[c] <= 0
  /\ retry_delay' = [retry_delay EXCEPT ![c] = RetryDelayAfter(TRUE, @)]
  /\ sent' = [sent EXCEPT ![c] = Payload(op[c])]
  /\ pc' = [pc EXCEPT ![c] = "awaiting"]
  /\ timer' = [timer EXCEPT ![c] = 0]
  /\ h' = [h EXCEPT ![c].nDispatch = @ + 1, ![c].opDispatch = @ + 1]
  /\ UNCHANGED <<time_since_last, req, loc, op, http>>
  /\ UNCHANGED <<gazette, wiki>>

\* Mutant: the retry follows the backoff with the delay as it was.
WakeBackoffKeepsDelay(c) ==
  /\ pc[c] = "backoff"
  /\ timer[c] <= 0
  /\ pc' = [pc EXCEPT ![c] = "call"]
  /\ timer' = [timer EXCEPT ![c] = 0]
  /\ UNCHANGED <<time_since_last, retry_delay, req, loc, op, sent, http, h>>
  /\ UNCHANGED <<gazette, wiki>>

\* Mutant: after the backoff the operation gives up with the empty result
\* instead of calling itself.
WakeBackoffGivesUp(c) ==
  /\ pc[c] = "backoff"
  /\ timer[c] <= 0
  /\ retry_delay' = [retry_delay EXCEPT ![c] = RetryDelayAfter(TRUE, @)]
  /\ pc' = [pc EXCEPT ![c] = "returned"]
  /\ timer' = [timer EXCEPT ![c] = 0]
  /\ h' = [h EXCEPT ![c].result = EmptyOf(op[c].name)]
  /\ UNCHANGED <<time_since_last, req, loc, op, sent, http>>
  /\ UNCHANGED <<gazette, wiki>>

\* The sleep returns, the delay doubles, _handle_rate_limit returns True and the
\* operation calls itself.
WakeBackoff(c) ==
  /\ pc[c] = "backoff"
  /\ timer[c] <= 0
  /\ retry_delay' = [retry_delay EXCEPT ![c] = RetryDelayAfter(TRUE, @)]
  /\ pc' = [pc EXCEPT ![c] = "call"]
  /\ timer' = [timer EXCEPT ![c] = 0]
  /\ UNCHANGED <<time_since_last, req, loc, op, sent, http, h>>
  /\ UNCHANGED <<gazette, wiki>>

\* Any other answer: the delay is reset and the body classified.
AnswerOther(c, r) ==
  /\ pc[c] = "awaiting"
  /\ ~IsRateLimited(r)
  /\ retry_delay' = [retry_delay EXCEPT ![c] = RetryDelayAfter(FALSE, @)]
  /\ Complete(c, TRUE, HandleResponse(op[c].name, r), Answered(r))
  /\ UNCHANGED <<time_since_last, timer>>
  /\ UNCHANGED <<gazette, wiki>>

\* Mutant: the exception of the transport sets the delay back to the base.
TransportFailResetsDelay(c) ==
  /\ pc[c] = "awaiting"
  /\ retry_delay' = [retry_delay EXCEPT ![c] = BaseRetryDelay]
  /\ Complete(c, TRUE, Classified("transport", EmptyOf(op[c].name)), TransportException)
  /\ UNCHANGED <<time_since_last, timer>>
  /\ UNCHANGED <<gazette, wiki>>

\* session.post / session.get raises (ConnectionError, Timeout): no response.
TransportFail(c) ==
  /\ pc[c] = "awaiting"
  /\ Complete(c, FALSE, Classified("transport", EmptyOf(op[c].name)), TransportException)
  /\ UNCHANGED <<time_since_last, retry_delay, timer>>
  /\ UNCHANGED <<gazette, wiki>>

(***************************************************************************)
(* Requests.                                                                *)
(***************************************************************************)
\* YargitaySearchView() (lines 19-33)
NewInstance(c) ==
  /\ pc[c] = "idle"
  /\ time_since_last' = [time_since_last EXCEPT ![c] = SinceCap]
  /\ retry_delay' = [retry_delay EXCEPT ![c] = BaseRetryDelay]
  /\ h' = [h EXCEPT ![c] = NoHistory]
  /\ UNCHANGED <<pc, timer, req, loc, op, sent, http>>
  /\ UNCHANGED <<gazette, wiki>>

\* A view is called with request r: up to its call of search_decisions or
\* fetch_document_content.
Receive(c, r) ==
  /\ pc[c] = "idle"
  /\ req' = [req EXCEPT ![c] = r]
  /\ LET e == Entry(r)
     IN  IF e.kind = "reject"
           THEN /\ http' = [http EXCEPT ![c] = ErrorResponse(e.status, e.error)]
                /\ pc' = [pc EXCEPT ![c] = "done"]
                /\ h' = [h EXCEPT ![c] = NewRequestHistory(@)]
                /\ UNCHANGED <<time_since_last, retry_delay, loc, op>>
           ELSE /\ IF ConstructsScraper(r.view)
                     THEN /\ time_since_last' = [time_since_last EXCEPT ![c] = SinceCap]
                          /\ retry_delay' = [retry_delay EXCEPT ![c] = BaseRetryDelay]
                          /\ h' = [h EXCEPT ![c] = NoHistory]
                     ELSE /\ h' = [h EXCEPT ![c] = NewRequestHistory(@)]
                          /\ UNCHANGED <<time_since_last, retry_delay>>
                /\ pc' = [pc EXCEPT ![c] = "call"]
                /\ IF e.kind = "search"
                     THEN /\ loc' = [loc EXCEPT ![c] =
                                       [NoLoc EXCEPT !.keyword = e.keyword,
                                                     !.page_number = e.page_number,
                                                     !.page_size = e.page_size,
                                                     !.fetch_content = e.fetch_content]]
                          /\ op' = [op EXCEPT ![c] =
                                      [name |-> "search", keyword |-> e.keyword,
                                       page_number |-> e.page_number,
                                       page_size |-> e.page_size]]
                     ELSE /\ op' = [op EXCEPT ![c] = [name |-> "fetch", id |-> e.id]]
                          /\ UNCHANGED loc
                /\ UNCHANGED http
  /\ UNCHANGED <<timer, sent>>
  /\ UNCHANGED <<gazette, wiki>>

\* The response is delivered; the caller may send its next request.
Finish(c) ==
  /\ pc[c] = "done"
  /\ pc' = [pc EXCEPT ![c] = "idle"]
  /\ req' = [req EXCEPT ![c] = NoReq]
  /\ loc' = [loc EXCEPT ![c] = NoLoc]
  /\ sent' = [sent EXCEPT ![c] = NoSent]
  /\ http' = [http EXCEPT ![c] = NoHttp]
  /\ h' = [h EXCEPT ![c] = NewRequestHistory(@)]
  /\ UNCHANGED <<time_since_last, retry_delay, timer, op>>
  /\ UNCHANGED <<gazette, wiki>>

\* The clock.  A caller between two statements of its handler takes its step
\* before time moves on; a sleep returns within MaxOversleep of its time and an
\* answer comes within MaxLatency.
Sleeping(c) == pc[c] \in {"rl_sleep", "backoff"}

HoldsClock(c) ==
  \/ pc[c] \in {"call", "limited", "returned", "done"}
  \/ Sleeping(c) /\ timer[c] <= -MaxOversleep
  \/ pc[c] = "awaiting" /\ time_since_last[c] >= MaxLatency

\* A second passes.
Tick ==
  /\ \A c \in Callers : ~HoldsClock(c)
  /\ \E c \in Callers : Sleeping(c) \/ time_since_last[c] < SinceCap
  /\ time_since_last' =
       [c \in Callers |-> IF time_since_last[c] < SinceCap THEN time_since_last[c] + 1
                          ELSE SinceCap]
  /\ timer' = [c \in Callers |-> IF Sleeping(c) THEN timer[c] - 1 ELSE timer[c]]
  /\ UNCHANGED <<retry_delay, pc, req, loc, op, sent, http, h>>
  /\ UNCHANGED <<gazette, wiki>>

CallerStep(c, requests, maxHits) ==
  \/ NewInstance(c)
  \/ \E r \in requests : Receive(c, r)
  \/ RateLimit(c)
  \/ WakeRateLimit(c)
  \/ \E r \in Responses : AnswerRateLimited(c, r, maxHits)
  \/ Backoff(c)
  \/ WakeBackoff(c)
  \/ \E r \in Responses : AnswerOther(c, r)
  \/ TransportFail(c)
  \/ Resume(c)
  \/ Finish(c)

\* One client instance, one request at a time.
Next == Tick \/ CallerStep(1, Requests, MaxHits)

Spec == Init /\ [][Next]_vars

(***************************************************************************)
(* Properties.                                                              *)
(***************************************************************************)

\* C1: on one instance, two consecutive dispatches are at least MinDelay
\* seconds apart.
C1_DispatchesMinDelayApart ==
  \A c \in Callers : h[c].lastGap # -1 => h[c].lastGap >= MinDelay

\* A search answered without a rate-limit signal, then the first enrichment
\* fetch dispatched exactly MinDelay after it.
C1_Witness ==
  \E c \in Callers :
    /\ pc[c] = "awaiting" /\ op[c].name = "fetch"
    /\ h[c].nDispatch = 2 /\ h[c].opDispatch = 1
    /\ h[c].lastGap = MinDelay

\* C2: once a rate-limited answer has been handled the retry delay is twice
\* what it was when the answer came; once any other answer has been handled
\* it is the base delay.
C2_DelayDoublesOrResets ==
  [][\A c \in Callers :
       /\ (pc[c] = "backoff" /\ pc'[c] # "backoff")
            => retry_delay'[c] = 2 * h[c].delayAtHit
       /\ (pc[c] \in {"limited", "backoff"} /\ pc'[c] \in {"limited", "backoff"})
            => retry_delay'[c] = h[c].delayAtHit
       /\ (pc[c] = "awaiting" /\ h'[c].lastAnswer.kind = "response"
           /\ h'[c].lastClass # "rate_limited")
            => retry_delay'[c] = BaseRetryDelay]_vars

\* An operation that was rate-limited twice and then got an error envelope:
\* the delay, which had reached four times the base, is the base again.
C2_Witness ==
  \E c \in Callers :
    /\ pc[c] = "returned" /\ h[c].lastClass = "error"
    /\ h[c].hits = 2 /\ h[c].delayAtHit = 2 * BaseRetryDelay
    /\ retry_delay[c] = BaseRetryDelay

\* C3: the retry delay is never below the base, and it decreases only when an
\* answer that is not rate-limited is handled (or a new instance is built).
C3_DelayAtLeastBase ==
  /\ [](\A c \in Callers : retry_delay[c] >= BaseRetryDelay)
  /\ [][\A c \in Callers :
          retry_delay'[c] < retry_delay[c]
            => \/ pc[c] = "awaiting" /\ h'[c].lastAnswer.kind = "response"
                  /\ h'[c].lastClass # "rate_limited"
               \/ pc[c] = "idle"]_vars

\* Two rate-limited answers in a row have been handled.
C3_Witness ==
  \E c \in Callers :
    /\ pc[c] = "call" /\ h[c].hits = 2
    /\ retry_delay[c] = 4 * BaseRetryDelay

\* C4: a rate-limited answer is never returned: it leads to the backoff and
\* from there to the same operation called again, so that after n such
\* answers in a row the (n+1)-th request goes out; an operation returns only
\* with an outcome that is not rate-limited.
C4_RateLimitedAlwaysRetried ==
  /\ [](\A c \in Callers :
          /\ pc[c] = "returned" => h[c].lastClass # "rate_limited"
          /\ pc[c] = "awaiting" => h[c].opDispatch = h[c].hits + 1)
  /\ [][\A c \in Callers :
          /\ (pc[c] = "awaiting" /\ h'[c].lastAnswer.kind = "response"
              /\ IsRateLimited(h'[c].lastAnswer))
               => pc'[c] = "limited"
          /\ (pc[c] = "limited" /\ pc'[c] # "limited") => pc'[c] = "backoff"
          /\ (pc[c] = "backoff" /\ pc'[c] # "backoff")
               => pc'[c] = "call" /\ op'[c] = op[c]]_vars

\* The third request of an operation is out after two rate-limited answers.
C4_Witness ==
  \E c \in Callers :
    pc[c] = "awaiting" /\ h[c].hits = 2 /\ h[c].opDispatch = 3

\* The page size the interface promises for a request of n: the member of
\* {10, 25, 50, 100} nearest to n, the smaller of two that are equally near.
AllowedPageSizes == {10, 25, 50, 100}
NearestAllowed(n) ==
  CHOOSE m \in AllowedPageSizes :
    \A k \in AllowedPageSizes :
      Abs(m - n) < Abs(k - n) \/ (Abs(m - n) = Abs(k - n) /\ m <= k)

\* C5: whichever search entry point took the request, the pageSize of a
\* dispatched search is the member of {10, 25, 50, 100} nearest to the page
\* size requested (10 when none was), the smaller one on a tie; so it is
\* always in the set, and a request in the set goes out unchanged.
C5_PageSizeNearestAllowed ==
  \A c \in Callers :
    sent[c].op = "search" =>
      LET requested == FieldOr(req[c].page_size, 10)
      IN  /\ sent[c].pageSize = NearestAllowed(requested)
          /\ sent[c].pageSize \in AllowedPageSizes
          /\ requested \in AllowedPageSizes => sent[c].pageSize = requested

\* search_decisions_api was asked for 75, equally far from 50 and 100, and 50
\* went out.
C5_Witness ==
  \E c \in Callers :
    /\ req[c].view = "api" /\ req[c].page_size = Val(75)
    /\ sent[c].op = "search" /\ sent[c].pageSize = 50

\* C6: a search requested with a page number below 1 is dispatched with
\* pageNumber 1 and its response echoes page_number 1; a page number of 1 or
\* more is dispatched and echoed unchanged.
C6_PageNumberClamped ==
  \A c \in Callers :
    LET requested == FieldOr(req[c].page_number, 1)
        expected  == IF requested < 1 THEN 1 ELSE requested
    IN  /\ sent[c].op = "search" => sent[c].pageNumber = expected
        /\ (pc[c] = "done" /\ req[c].view \in SearchViews /\ http[c].status = 200)
             => http[c].page_number = expected

\* A search for page -1 has been answered: page 1 went out and is echoed.
C6_Witness ==
  \E c \in Callers :
    /\ pc[c] = "done" /\ req[c].view \in SearchViews
    /\ req[c].page_number = Val(-1)
    /\ sent[c].op = "search" /\ sent[c].pageNumber = 1
    /\ http[c].status = 200 /\ http[c].page_number = 1

\* The keyword of request r is missing, empty or all white space.
BlankKeyword(r) ==
  \/ r.keyword.k = "absent"
  \/ r.keyword.k = "val" /\ \A i \in DOMAIN r.keyword.v : r.keyword.v[i] = " "

\* C7: a search with a blank keyword is answered with an error at once:
\* nothing is dispatched, no sleep is entered, and the instance's time of
\* last request and retry delay stay as they were.
C7_BlankKeywordRejectedEarly ==
  [][\A c \in Callers :
       (pc[c] = "idle" /\ req'[c] # req[c] /\ req'[c].view \in SearchViews
        /\ req'[c].valid_json /\ BlankKeyword(req'[c]))
         => /\ pc'[c] = "done"
            /\ http'[c].status = 400
            /\ sent'[c] = sent[c]
            /\ h'[c].nDispatch = 0
            /\ time_since_last'[c] = time_since_last[c]
            /\ retry_delay'[c] = retry_delay[c]
            /\ timer'[c] = timer[c]]_vars

\* A white-space keyword was rejected on an instance whose retry delay an
\* earlier request had left doubled.
C7_Witness ==
  \E c \in Callers :
    /\ pc[c] = "done" /\ req[c].view \in SearchViews
    /\ req[c].keyword = Val(<<" ", " ">>)
    /\ http[c].status = 400 /\ h[c].nDispatch = 0
    /\ h[c].dispatched /\ retry_delay[c] = 2 * BaseRetryDelay

\* The body is an upstream error envelope: an object whose metadata has
\* FMTY = "ERROR".
IsErrorEnvelope(body) ==
  /\ body.t = "obj" /\ "metadata" \in DOMAIN body.f
  /\ body.f["metadata"].t = "obj" /\ "FMTY" \in DOMAIN body.f["metadata"].f
  /\ body.f["metadata"].f["FMTY"] = Str("ERROR")

\* The upstream's last answer to caller c was an HTTP response that is not
\* rate-limited, with a status below 400 and a body that parsed.
ParsedAnswer(c) ==
  /\ pc[c] = "returned" /\ h[c].lastAnswer.kind = "response"
  /\ ~IsRateLimited(h[c].lastAnswer)
  /\ h[c].lastAnswer.status < ErrorStatusMin
  /\ h[c].lastAnswer.body.t # "raw"

\* C8: a search answered, without a rate-limit signal, with an error
\* envelope returns no decisions and zero totals, and raises nothing,
\* whatever else the body holds.
C8_ErrorEnvelopeGivesEmptyResult ==
  \A c \in Callers :
    (ParsedAnswer(c) /\ h[c].lastOp = "search"
     /\ IsErrorEnvelope(h[c].lastAnswer.body))
      => h[c].raised = "none" /\ h[c].result = EmptySearchResult

\* C9: no answer of the upstream makes search_decisions or
\* fetch_document_content raise: whatever the body, the operation returns,
\* and returns the empty result unless the body was taken for a success.
C9_NoExceptionEscapes ==
  \A c \in Callers :
    (pc[c] = "returned" /\ h[c].lastAnswer.kind = "response")
      => /\ h[c].raised = "none"
         /\ h[c].lastClass # "success" => h[c].result = EmptyOf(h[c].lastOp)

\* The upstream's last action on caller c's request was a failure of the
\* transport: an exception of the connection, an error status, or a body that
\* is not JSON, with no rate-limit signal.
TransportFailure(a) ==
  \/ a.kind = "exception"
  \/ /\ a.kind = "response" /\ ~IsRateLimited(a)
     /\ (a.status >= ErrorStatusMin \/ a.body.t = "raw")

\* C10: a transport failure ends the operation with the empty result, with no
\* exception and with no further request: the operation returns in the very
\* step that takes the failure, and a retry follows rate-limited answers only.
C10_TransportFailureEndsCall ==
  /\ [](\A c \in Callers :
          (pc[c] = "returned" /\ TransportFailure(h[c].lastAnswer))
            => /\ h[c].raised = "none"
               /\ h[c].result = EmptyOf(h[c].lastOp)
               /\ h[c].opDispatch = h[c].hits + 1)
  /\ [][\A c \in Callers :
          /\ (pc[c] = "awaiting" /\ TransportFailure(h'[c].lastAnswer))
               => /\ pc'[c] = "returned"
                  /\ sent'[c] = sent[c]
                  /\ h'[c].nDispatch = h[c].nDispatch
          /\ (pc[c] = "awaiting" /\ pc'[c] \in {"limited", "backoff", "call"})
               => h'[c].lastClass = "rate_limited"]_vars

\* A search was answered with status 500 and a body in the shape of a
\* success: the result is empty.
C10_Witness ==
  \E c \in Callers :
    /\ pc[c] = "returned" /\ h[c].lastOp = "search"
    /\ h[c].lastAnswer.kind = "response" /\ h[c].lastAnswer.status = 500
    /\ h[c].lastClass = "http_error"
    /\ SearchHasSuccessShape(h[c].lastAnswer.body) = Ok(TRUE)
    /\ h[c].result = EmptySearchResult

\* What the interface promises of a fetch the upstream answered with a: the
\* content of a success envelope (the empty string when it has none), and
\* none (not found) for everything else.
IsFetchSuccessEnvelope(body) ==
  /\ body.t = "obj" /\ "metadata" \in DOMAIN body.f
  /\ body.f["metadata"].t = "obj" /\ "FMTY" \in DOMAIN body.f["metadata"].f
  /\ body.f["metadata"].f["FMTY"] = Str("SUCCESS")

FetchExpected(a) ==
  IF a.kind = "response" /\ a.status < ErrorStatusMin /\ a.body.t # "raw"
     /\ IsFetchSuccessEnvelope(a.body)
    THEN IF "data" \in DOMAIN a.body.f THEN a.body.f["data"] ELSE EmptyStr
    ELSE JNull

\* C11: fetch_document_content turns every outcome that is not rate-limited
\* into found (the content of a success envelope, the empty string included)
\* or not found (every other body, every transport failure), and a content
\* endpoint answers 200 with the content when found and 404 when not.
C11_FetchOutcomeClassified ==
  /\ [](\A c \in Callers :
          (pc[c] = "returned" /\ h[c].lastOp = "fetch")
            => h[c].raised = "none" /\ h[c].result = FetchExpected(h[c].lastAnswer))
  /\ [][\A c \in Callers :
          (pc[c] = "returned" /\ h[c].lastOp = "fetch" /\ req[c].view \in ContentViews)
            => LET found == FetchExpected(h[c].lastAnswer)
               IN  IF found # JNull
                     THEN http'[c].status = 200 /\ http'[c].content = found
                     ELSE http'[c].status = 404]_vars

\* The phrase "too many requests" in the letter cases the upstream is taken
\* to use.
PhraseVariants == {"too many requests", "Too Many Requests", "TOO MANY REQUESTS"}

\* What the interface calls a rate-limited response.
RateLimitSignal(a) ==
  a.status = TooManyStatus \/ Tokens(a.body) \cap PhraseVariants # {}

\* C12: a response is handled as rate-limited exactly when its status is 429
\* or its text holds "too many requests" in some letter case, whatever its
\* envelope and whatever the retry delay of the instance.
C12_RateLimitedIffStatusOrPhrase ==
  /\ [](\A c \in Callers :
          /\ pc[c] = "limited" => RateLimitSignal(h[c].lastAnswer)
          /\ (pc[c] = "returned" /\ h[c].lastAnswer.kind = "response")
               => ~RateLimitSignal(h[c].lastAnswer))
  /\ [][\A c \in Callers :
          (pc[c] = "awaiting" /\ h'[c].lastAnswer.kind = "response")
            => (pc'[c] = "limited" <=> RateLimitSignal(h'[c].lastAnswer))]_vars

\* A status-200 success envelope with the phrase in a decision, in mixed
\* case, is handled as rate-limited on an instance whose delay was doubled.
C12_Witness ==
  \E c \in Callers :
    /\ pc[c] = "limited" /\ h[c].lastAnswer.status = 200
    /\ SearchHasSuccessShape(h[c].lastAnswer.body) = Ok(TRUE)
    /\ "Too Many Requests" \in Tokens(h[c].lastAnswer.body)
    /\ retry_delay[c] = 2 * BaseRetryDelay

\* Decision d carries an id that counts as one (not null, not empty).
HasId(d) == d.t = "obj" /\ "id" \in DOMAIN d.f /\ PyTruthy(d.f["id"])

\* Caller c's search view is in its enrichment loop or about to enter it, the
\* operation it called has returned without raising.
InEnrichment(c) ==
  /\ pc[c] = "returned" /\ req[c].view \in SearchViews /\ h[c].raised = "none"
  /\ (op[c].name = "search" => loc[c].fetch_content /\ PyTruthy(h[c].result.decisions))

\* The position of the decision just handled (0 before the first).
Handled(c) == IF op[c].name = "search" THEN 0 ELSE loc[c].idx

\* Every fetch of an instance that has dispatched before goes out MinDelay
\* or more after the dispatch before it.
EnrichmentPaced ==
  \A c \in Callers :
    (pc[c] = "awaiting" /\ op[c].name = "fetch" /\ req[c].view \in SearchViews)
      => h[c].lastGap >= MinDelay

ConcurrentRequests ==
  { SearchRequest("api", K, Val(1), Val(10), Val("true")),
    ContentRequest("content", K) }

ConcurrentResponses ==
  { [status |-> 200, body |-> JObj([data |-> JObj([data |-> JList(<<D1>>)])])],
    [status |-> 200, body |-> JObj([metadata |-> MetaSuccess, data |-> Str("content")])],
    [status |-> 429, body |-> Raw(<<"html">>)] }

ConcurrentStep(c) ==
  \/ NewInstance(c)
  \/ \E r \in ConcurrentRequests : Receive(c, r)
  \/ RateLimit(c)
  \/ WakeRateLimit(c)
  \/ \E r \in ConcurrentResponses : AnswerRateLimited(c, r, 1)
  \/ Backoff(c)
  \/ WakeBackoff(c)
  \/ \E r \in ConcurrentResponses : AnswerOther(c, r)
  \/ TransportFail(c)
  \/ Resume(c)
  \/ Finish(c)

NextConcurrent == Tick \/ \E c \in Callers : ConcurrentStep(c)

SpecConcurrent == Init /\ [][NextConcurrent]_vars

\* C14: whatever the interleaving of the callers, no two requests reach the
\* upstream less than MinDelay apart: of two callers whose instances have
\* both dispatched within the last SinceCap seconds, one did so MinDelay or
\* more before the other.
C14_CallersShareOneGate ==
  \A c1, c2 \in Callers :
    (c1 # c2 /\ h[c1].dispatched /\ h[c2].dispatched
     /\ time_since_last[c1] < SinceCap /\ time_since_last[c2] < SinceCap)
      => Abs(time_since_last[c1] - time_since_last[c2]) >= MinDelay

\* The scenario of C15: a search for one keyword, page 1, page size 17, has
\* been answered with status 200 and a success envelope of three decisions
\* with recordsTotal = 42 and no recordsFiltered.
ThreeDecisions == JList(<<D1, DNoId, D2>>)

SearchScenario(c) ==
  /\ pc[c] = "returned" /\ h[c].lastOp = "search"
  /\ req[c].keyword = K /\ req[c].page_number = Val(1) /\ req[c].page_size = Val(17)
  /\ h[c].lastAnswer.kind = "response" /\ h[c].lastAnswer.status = 200
  /\ h[c].lastAnswer.body =
       JObj([data |-> JObj([data |-> ThreeDecisions, recordsTotal |-> JNum(42)])])

SearchScenarioSent(c) ==
  /\ sent[c].op = "search" /\ sent[c].pageSize = 10 /\ sent[c].pageNumber = 1
  /\ sent[c].aranan = <<"k">> /\ sent[c].arananKelime = <<"k">>

\* C15 as stated: in the scenario the request went out with pageSize 10,
\* pageNumber 1 and the keyword in both fields, and the result is the three
\* decisions in order with totalRecords = 42 and filteredRecords = 42.
C15_ScenarioFilteredIsTotal ==
  \A c \in Callers :
    SearchScenario(c)
      => /\ SearchScenarioSent(c)
         /\ h[c].result = SearchResult(ThreeDecisions, JNum(42), JNum(42))

\* C15, amended: in the scenario the request went out with pageSize 10,
\* pageNumber 1 and the keyword in both fields, and the result is the three
\* decisions in order with totalRecords = 42 and filteredRecords = 3, the
\* number of decisions.
C15_ScenarioFilteredIsCount ==
  \A c \in Callers :
    SearchScenario(c)
      => /\ SearchScenarioSent(c)
         /\ h[c].raised = "none"
         /\ h[c].result = SearchResult(ThreeDecisions, JNum(42), JNum(3))

\* The scenario has happened through the class-based POST view.
C15_Witness ==
  \E c \in Callers :
    /\ SearchScenario(c) /\ req[c].view = "post"
    /\ h[c].result.filtered_records = JNum(3)

\* The scenario of C16: a content view, which works on a client of its own
\* just built, has had its fetch answered with status 429, once.
FetchLimitedOnce(c) ==
  /\ req[c].view \in ContentViews /\ op[c].name = "fetch"
  /\ h[c].hits = 1 /\ h[c].hitStatus = TooManyStatus

\* The retry that follows is in flight.
FetchRetryInFlight(c) == FetchLimitedOnce(c) /\ pc[c] = "awaiting"

\* a is a status-200 success envelope for a fetch, with a content string
ContentAnswer(a) ==
  /\ a.kind = "response" /\ a.status = 200 /\ ~RateLimitSignal(a)
  /\ a.body.t = "obj" /\ IsFetchSuccessEnvelope(a.body)
  /\ "data" \in DOMAIN a.body.f /\ a.body.f["data"].t = "str"

\* C16: a fetch on a fresh client answered with status 429 sleeps the base
\* delay once and goes out a second time with the retry delay at twice the
\* base; answered then with a success envelope it returns that envelope's
\* content, after two dispatches and one backoff in all, and the retry
\* delay is the base again.
C16_FetchRetriedOnceAfter429 ==
  /\ [](\A c \in Callers :
          /\ FetchRetryInFlight(c)
               => /\ retry_delay[c] = 2 * BaseRetryDelay
                  /\ h[c].nDispatch = 2 /\ h[c].opDispatch = 2
                  /\ h[c].burst = 1 /\ h[c].slept = BaseRetryDelay
          /\ (FetchLimitedOnce(c) /\ pc[c] = "returned" /\ ContentAnswer(h[c].lastAnswer))
               => /\ h[c].raised = "none"
                  /\ h[c].result = h[c].lastAnswer.body.f["data"]
                  /\ h[c].nDispatch = 2
                  /\ retry_delay[c] = BaseRetryDelay)
  /\ [][\A c \in Callers :
          /\ (FetchLimitedOnce(c) /\ pc[c] = "limited" /\ pc'[c] # "limited")
               => pc'[c] = "backoff" /\ timer'[c] = BaseRetryDelay
          /\ (FetchRetryInFlight(c) /\ ContentAnswer(h'[c].lastAnswer))
               => pc'[c] = "returned"]_vars

\* The scenario has run to its end: 429, one backoff, a second request, the
\* content returned.
C16_Witness ==
  \E c \in Callers :
    /\ FetchLimitedOnce(c) /\ pc[c] = "returned" /\ ContentAnswer(h[c].lastAnswer)
    /\ h[c].result = Str("content") /\ h[c].nDispatch = 2
    /\ h[c].delayAtHit = BaseRetryDelay /\ retry_delay[c] = BaseRetryDelay

\* C18: the k-th rate-limited response in a row (no other response in
\* between, the delay at the base before the first) is followed by a sleep
\* of BaseRetryDelay * 2^(k-1) seconds, the delay held before the doubling,
\* and leaves the retry delay at BaseRetryDelay * 2^k; the backoff slept
\* over the k responses is BaseRetryDelay * (2^k - 1) seconds in all.
C18_BackoffSleepsDelayBeforeDoubling ==
  /\ [](\A c \in Callers :
          LET k == h[c].burst
          IN  CASE pc[c] = "limited" ->
                     /\ k >= 1
                     /\ retry_delay[c] = BaseRetryDelay * 2^(k - 1)
                     /\ h[c].slept = BaseRetryDelay * (2^(k - 1) - 1)
                [] pc[c] = "backoff" ->
                     /\ k >= 1
                     /\ retry_delay[c] = BaseRetryDelay * 2^(k - 1)
                     /\ h[c].slept = BaseRetryDelay * (2^k - 1)
                [] OTHER ->
                     /\ retry_delay[c] = BaseRetryDelay * 2^k
                     /\ h[c].slept = BaseRetryDelay * (2^k - 1))
  /\ [][\A c \in Callers :
          (pc[c] = "limited" /\ pc'[c] = "backoff")
            => /\ timer'[c] = BaseRetryDelay * 2^(h[c].burst - 1)
               /\ h'[c].slept = h[c].slept + timer'[c]]_vars

\* The second rate-limited response in a row has been handled: 10 + 20
\* seconds slept, the delay at 40.
C18_Witness ==
  \E c \in Callers :
    /\ pc[c] = "call" /\ h[c].burst = 2 /\ h[c].hits = 2
    /\ h[c].slept = 3 * BaseRetryDelay /\ retry_delay[c] = 4 * BaseRetryDelay

\* C17: a request goes out only at the end of a throttle step, which was
\* entered at the call of the operation, has seen MinDelay pass since the
\* last recorded time (or slept), and records the time anew; after a
\* rate-limited response the backoff sleep comes first, then the doubling,
\* then the call with its throttle, and only then the next request.
C17_ThrottleBeforeEveryDispatch ==
  [][\A c \in Callers :
       /\ (pc'[c] = "awaiting" /\ pc[c] # "awaiting")
            => /\ pc[c] \in {"call", "rl_sleep"}
               /\ pc[c] = "call" => time_since_last[c] >= MinDelay
               /\ pc[c] = "rl_sleep" => timer[c] <= 0
               /\ time_since_last'[c] = 0
               /\ h'[c].opDispatch = h[c].opDispatch + 1
       /\ (pc'[c] = "rl_sleep" /\ pc[c] # "rl_sleep")
            => pc[c] = "call" /\ timer'[c] >= MinDelay - time_since_last[c]
       /\ (pc[c] = "limited" /\ pc'[c] # "limited")
            => pc'[c] = "backoff" /\ retry_delay'[c] = retry_delay[c]
       /\ (pc[c] = "backoff" /\ pc'[c] # "backoff")
            => /\ pc'[c] = "call" /\ timer[c] <= 0
               /\ retry_delay'[c] = 2 * retry_delay[c]
               /\ sent'[c] = sent[c] /\ h'[c].opDispatch = h[c].opDispatch
               /\ time_since_last'[c] = time_since_last[c]
       /\ h'[c].opDispatch > h[c].opDispatch
            => pc'[c] = "awaiting" /\ pc[c] # "awaiting"]_vars

\* A retry has just gone out, the time recorded anew, after one backoff.
C17_Witness ==
  \E c \in Callers :
    /\ pc[c] = "awaiting" /\ h[c].hits = 1 /\ h[c].opDispatch = 2
    /\ time_since_last[c] = 0 /\ h[c].lastGap >= MinDelay

\* The body is a search success envelope: an object whose data is an object
\* whose data is a list.
IsSearchSuccessEnvelope(body) ==
  /\ body.t = "obj" /\ "data" \in DOMAIN body.f
  /\ body.f["data"].t = "obj" /\ "data" \in DOMAIN body.f["data"].f
  /\ body.f["data"].f["data"].t = "list"

\* Field k of the envelope's data when it is there, the number of decisions
\* when it is not.
RecordsOr(body, k) ==
  IF k \in DOMAIN body.f["data"].f THEN body.f["data"].f[k]
  ELSE JNum(Len(body.f["data"].f["data"].l))

\* C20: a search answered with a success envelope returns the envelope's
\* decisions as they are, recordsTotal and recordsFiltered where the
\* envelope gives them and the number of decisions where it does not; and
\* the total_results of a search view's answer is the number of decisions
\* in that answer, which is the number the search returned.
C20_SuccessEnvelopeTotals ==
  \A c \in Callers :
    /\ (ParsedAnswer(c) /\ h[c].lastOp = "search"
        /\ IsSearchSuccessEnvelope(h[c].lastAnswer.body))
         => /\ h[c].raised = "none"
            /\ h[c].result.decisions = h[c].lastAnswer.body.f["data"].f["data"]
            /\ h[c].result.total_records = RecordsOr(h[c].lastAnswer.body, "recordsTotal")
            /\ h[c].result.filtered_records =
                 RecordsOr(h[c].lastAnswer.body, "recordsFiltered")
    /\ (pc[c] = "done" /\ req[c].view \in SearchViews /\ http[c].status = 200
        /\ http[c].decisions.t = "list")
         => /\ http[c].total_results = Len(http[c].decisions.l)
            /\ http[c].total_results = Len(loc[c].decisions.l)
            /\ http[c].total_records = loc[c].total_records
            /\ http[c].filtered_records = loc[c].filtered_records

\* A search was answered with two decisions and neither total: both totals
\* are 2.
C20_Witness ==
  \E c \in Callers :
    /\ ParsedAnswer(c) /\ h[c].lastOp = "search"
    /\ h[c].lastAnswer.body = JObj([data |-> JObj([data |-> JList(<<DEmptyId, D2>>)])])
    /\ h[c].result = SearchResult(JList(<<DEmptyId, D2>>), JNum(2), JNum(2))

(***************************************************************************)
(* Progress.  A handler that can take its next step takes it, time passes,  *)
(* and a request in flight gets its outcome: an answer, or the exception    *)
(* of the transport (timeout=30).  No new request need ever come.           *)
(***************************************************************************)
Progress(c) ==
  \/ RateLimit(c)
  \/ WakeRateLimit(c)
  \/ \E r \in Responses : AnswerRateLimited(c, r, MaxHits)
  \/ Backoff(c)
  \/ WakeBackoff(c)
  \/ \E r \in Responses : AnswerOther(c, r)
  \/ TransportFail(c)
  \/ Resume(c)
  \/ Finish(c)

LiveRequests ==
  { SearchRequest("post", K, Val(1), Val(10), Val("true")),
    SearchRequest("api", K, Val(1), Val(10), Val("false")),
    ContentRequest("content_get", K) }

NextLive == Tick \/ CallerStep(1, LiveRequests, MaxHits)

SpecLive == Init /\ [][NextLive]_vars /\ WF_vars(Tick) /\ WF_vars(Progress(1))

\* The operation caller c called has ended: it returned or it raised.
Ended(c) == pc[c] = "returned"

\* C19: a call of search_decisions or fetch_document_content that is not
\* rate-limited for ever returns a result to its caller.
C19_CallEventuallyReturnsResult ==
  \A c \in {1} : (pc[c] = "call") ~> (Ended(c) /\ h[c].raised = "none")

\* C21: an exception of the transport (no response at all) ends the call
\* with the empty result and leaves the retry delay as it was: after k
\* rate-limited responses since the delay was last the base it is still
\* BaseRetryDelay * 2^k, and the next rate-limited response the instance
\* gets, in a later call, is followed by a sleep of that value.
C21_TransportExceptionKeepsDelay ==
  /\ [](\A c \in Callers :
          (pc[c] = "returned" /\ h[c].lastAnswer.kind = "exception")
            => /\ h[c].raised = "none" /\ h[c].result = EmptyOf(h[c].lastOp)
               /\ retry_delay[c] = BaseRetryDelay * 2^h[c].burst
               /\ h[c].burst >= h[c].hits)
  /\ [][\A c \in Callers :
          /\ (pc[c] = "awaiting" /\ h'[c].lastAnswer.kind = "exception")
               => /\ retry_delay'[c] = retry_delay[c]
                  /\ h'[c].burst = h[c].burst
                  /\ pc'[c] = "returned"
          /\ (pc[c] = "limited" /\ pc'[c] = "backoff" /\ h[c].burst > h[c].hits)
               => /\ timer'[c] = retry_delay[c]
                  /\ timer'[c] = BaseRetryDelay * 2^(h[c].burst - 1)
                  /\ timer'[c] > BaseRetryDelay * 2^(h[c].hits - 1)]_vars

\* An enrichment fetch was rate-limited and its retry failed in the
\* transport; the next enrichment fetch, rate-limited at its first attempt,
\* is about to sleep twice the base.
C21_Witness ==
  \E c \in Callers :
    /\ pc[c] = "limited" /\ op[c].name = "fetch" /\ req[c].view \in SearchViews
    /\ h[c].hits = 1 /\ h[c].burst = 2
    /\ retry_delay[c] = 2 * BaseRetryDelay /\ loc[c].idx = 3

\* a is a status-200 answer in the shape of a success for operation o whose
\* text holds the phrase.
SuccessWithPhrase(o, a) ==
  /\ a.kind = "response" /\ a.status = 200 /\ a.body.t = "obj"
  /\ IF o = "search" THEN IsSearchSuccessEnvelope(a.body)
                     ELSE IsFetchSuccessEnvelope(a.body)
  /\ Tokens(a.body) \cap PhraseVariants # {}

\* The text of what an operation returned.
ResultTokens(r) ==
  IF "decisions" \in DOMAIN r THEN Tokens(r.decisions) ELSE Tokens(r)

\* C22: a status-200 success envelope whose text holds "too many requests"
\* is handled as rate-limited: the operation does not return on it but
\* sleeps the backoff and calls itself again, every time such an answer
\* comes, and nothing an operation returns holds the phrase.
C22_RateLimitBeforeEnvelope ==
  /\ [](\A c \in Callers :
          pc[c] = "returned"
            => /\ ~SuccessWithPhrase(h[c].lastOp, h[c].lastAnswer)
               /\ ResultTokens(h[c].result) \cap PhraseVariants = {})
  /\ [][\A c \in Callers :
          /\ (pc[c] = "awaiting" /\ SuccessWithPhrase(op[c].name, h'[c].lastAnswer))
               => /\ pc'[c] = "limited" /\ h'[c].result = NoResult
                  /\ http'[c] = http[c] /\ op'[c] = op[c]
          /\ (pc[c] = "limited" /\ pc'[c] # "limited")
               => pc'[c] = "backoff" /\ timer'[c] = retry_delay[c] /\ op'[c] = op[c]
          /\ (pc[c] = "backoff" /\ pc'[c] # "backoff")
               => pc'[c] = "call" /\ op'[c] = op[c] /\ http'[c] = http[c]]_vars

\* A fetch has been answered a second time with a success envelope whose
\* content is the phrase, and is to be retried again.
C22_Witness ==
  \E c \in Callers :
    /\ pc[c] = "limited" /\ op[c].name = "fetch" /\ h[c].hits = 2
    /\ SuccessWithPhrase("fetch", h[c].lastAnswer)
    /\ h[c].lastAnswer.body.f["data"] = Str("TOO MANY REQUESTS")

\* The decisions of list ds that carry an id.
WithId(ds) == {j \in DOMAIN ds.l : HasId(ds.l[j])}

\* Decision d as the search returned it, whatever content was stored in it.
WithoutContent(d) ==
  IF d.t = "obj" /\ "document_content" \in DOMAIN d.f
    THEN JObj([k \in DOMAIN d.f \ {"document_content"} |-> d.f[k]])
    ELSE d

\* A search view has answered a request whose search returned a list of
\* objects.
SearchAnswered(c) ==
  /\ pc[c] = "done" /\ req[c].view \in SearchViews
  /\ http[c].status \in {200, 500} /\ h[c].nDispatch > 0
  /\ loc[c].decisions.t = "list"
  /\ \A j \in DOMAIN loc[c].decisions.l : loc[c].decisions.l[j].t = "obj"

\* C23: the enrichment loop runs only when fetch_content is set and the
\* search returned decisions; it calls fetch_document_content once for each
\* decision with an id and for no other; a fetch that fails or finds empty
\* content leaves its decision without document_content and the loop goes
\* on; and the view returns every decision of the search.
C23_EnrichmentSkipsAndContinues ==
  /\ [](\A c \in Callers :
          SearchAnswered(c)
            => IF loc[c].fetch_content /\ loc[c].decisions.l # <<>>
                 THEN /\ h[c].nFetch = Cardinality(WithId(loc[c].decisions))
                      /\ http[c].status = 200
                      /\ Len(http[c].decisions.l) = Len(loc[c].decisions.l)
                 ELSE h[c].nFetch = 0)
  /\ [][\A c \in Callers :
          (pc[c] = "returned" /\ op[c].name = "fetch" /\ req[c].view \in SearchViews)
            => /\ pc'[c] = "call" \/ http'[c].status = 200
               /\ \A j \in DOMAIN loc[c].decisions.l :
                    WithoutContent(loc'[c].decisions.l[j])
                      = WithoutContent(loc[c].decisions.l[j])
               /\ ~(ContentAnswer(h[c].lastAnswer)
                    /\ h[c].lastAnswer.body.f["data"] # EmptyStr)
                    => loc'[c].decisions.l[loc[c].idx] = loc[c].decisions.l[loc[c].idx]
               /\ (ContentAnswer(h[c].lastAnswer)
                   /\ h[c].lastAnswer.body.f["data"] # EmptyStr)
                    => loc'[c].decisions.l[loc[c].idx].f["document_content"]
                         = h[c].lastAnswer.body.f["data"]]_vars


\* The body carries an error marker: its metadata has an FMTY that is not
\* null.
HasErrorMarker(body) ==
  /\ body.t = "obj" /\ "metadata" \in DOMAIN body.f
  /\ body.f["metadata"].t = "obj" /\ "FMTY" \in DOMAIN body.f["metadata"].f
  /\ body.f["metadata"].f["FMTY"] # JNull

\* The branch of the fetch classification that the value of metadata.FMTY
\* selects.
FetchBranchOf(fmty) ==
  IF fmty = Str("SUCCESS") THEN "success"
  ELSE IF fmty = Str("ERROR") THEN "error"
  ELSE IF fmty # JNull THEN "other_error"
  ELSE "unexpected"

\* C24: a search body that carries both a results collection (data.data a
\* list) and an error marker is returned as the populated result of its
\* decisions; a search ends in an error branch only when the body lacks the
\* success shape; and the branch a fetch takes is the one its metadata.FMTY
\* selects, whatever data the body holds, with no content returned unless
\* FMTY is "SUCCESS".
C24_SuccessShapeBeforeErrorMarker ==
  \A c \in Callers :
    /\ (ParsedAnswer(c) /\ h[c].lastOp = "search"
        /\ IsSearchSuccessEnvelope(h[c].lastAnswer.body)
        /\ HasErrorMarker(h[c].lastAnswer.body))
         => /\ h[c].raised = "none" /\ h[c].lastClass = "success"
            /\ h[c].result.decisions = h[c].lastAnswer.body.f["data"].f["data"]
    /\ (ParsedAnswer(c) /\ h[c].lastOp = "search"
        /\ h[c].lastClass \in {"error", "other_error", "unexpected"})
         => SearchHasSuccessShape(h[c].lastAnswer.body) = Ok(FALSE)
    /\ (ParsedAnswer(c) /\ h[c].lastOp = "fetch" /\ h[c].raised = "none")
         => LET fmty == MetaFmty(h[c].lastAnswer.body).v
            IN  /\ h[c].lastClass = FetchBranchOf(fmty)
                /\ fmty # Str("SUCCESS") => h[c].result = JNull

\* A search was answered with one decision and an error marker: the decision
\* is returned.
C24_Witness ==
  \E c \in Callers :
    /\ ParsedAnswer(c) /\ h[c].lastOp = "search"
    /\ h[c].lastAnswer.body =
         JObj([data |-> JObj([data |-> JList(<<D1>>)]), metadata |-> MetaError])
    /\ h[c].result = SearchResult(JList(<<D1>>), JNum(1), JNum(1))

(***************************************************************************)
(* The gazette page (Scrapper/utils.py).  An HTML text is held as the       *)
(* nodes BeautifulSoup parses it into: tags, with a name, an id, a class,   *)
(* a style and contents, and strings, each a sequence of phrases.  The      *)
(* empty text has no nodes.  None is JNull.                                 *)
(***************************************************************************)
Html(nodes) == [t |-> "html", nodes |-> nodes]

Tag(name, id, cls, contents) ==
  [k |-> "tag", name |-> name, id |-> id, cls |-> cls, style |-> "none",
   contents |-> contents]

NavigableString(phrases) == [k |-> "string", s |-> phrases]

ContentId == "html-content"

\* the phrase of line 87, written without its diacritics
AppNotice == "Resmi Gazete'nin kurumsal mobil uygulamasi"

\* soup.find(name, id=id): the first such tag in document order, or None
RECURSIVE Find(_, _, _)
Find(nodes, name, id) ==
  IF nodes = <<>> THEN JNull
  ELSE LET n == Head(nodes)
           inner == IF n.k = "tag" THEN Find(n.contents, name, id) ELSE JNull
       IN  IF n.k = "tag" /\ n.name = name /\ n.id = id THEN n
           ELSE IF inner # JNull THEN inner
           ELSE Find(Tail(nodes), name, id)

\* The positions the clean-up loop collects (lines 80-90): the first hr of
\* the div's contents, and after it every hr and every string that holds
\* the notice of the mobile application.
RECURSIVE ElementsToRemove(_, _, _)
ElementsToRemove(contents, i, first_hr_found) ==
  IF i > Len(contents) THEN {}
  ELSE LET element == contents[i]
           isHr == element.k = "tag" /\ element.name = "hr"
           isNotice == /\ element.k = "string"
                       /\ \E j \in DOMAIN element.s : element.s[j] = AppNotice
       IN  IF ~first_hr_found /\ isHr
             THEN {i} \cup ElementsToRemove(contents, i + 1, TRUE)
           ELSE IF first_hr_found
             THEN (IF isNotice \/ isHr THEN {i} ELSE {})
                    \cup ElementsToRemove(contents, i + 1, TRUE)
           ELSE ElementsToRemove(contents, i + 1, FALSE)

RECURSIVE Without(_, _, _)
Without(contents, removed, i) ==
  IF i > Len(contents) THEN <<>>
  ELSE (IF i \in removed THEN <<>> ELSE <<contents[i]>>)
         \o Without(contents, removed, i + 1)

\* The style lines 99-114 leave on a tag below the container: the last of
\* the assignments that reach it.
StyleOf(n) ==
  IF n.name = "div" /\ n.cls = "fihrist-item" THEN "item"
  ELSE IF n.name = "a" THEN "link"
  ELSE IF n.name = "div" /\ n.cls = "html-subtitle" THEN "subtitle"
  ELSE IF n.name = "div" /\ n.cls \in {"card-title", "html-title"} THEN "header"
  ELSE n.style

RECURSIVE Styled(_)
Styled(nodes) ==
  IF nodes = <<>> THEN <<>>
  ELSE LET n == Head(nodes)
       IN  <<IF n.k = "tag"
               THEN [n EXCEPT !.style = StyleOf(n), !.contents = Styled(n.contents)]
               ELSE n>> \o Styled(Tail(nodes))

\* process_content_area: the outcomes it can have.  el.decompose() on a
\* string is an AttributeError where the installed bs4 defines decompose on
\* tags only, and the except clause then returns None; the repository pins
\* no version, so both outcomes stand.
process_content_area(content_area) ==
  LET removed == ElementsToRemove(content_area.contents, 1, FALSE)
      kept == Without(content_area.contents, removed, 1)
      content_div == [content_area EXCEPT !.contents = Styled(kept),
                                          !.style = "container"]
  IN  {Html(<<content_div>>)}
        \cup (IF \E i \in removed : content_area.contents[i].k = "string"
                THEN {JNull} ELSE {})

\* process_manual_html: the outcomes it can have
process_manual_html(html_content) ==
  LET content_area == Find(html_content.nodes, "div", ContentId)
  IN  IF content_area # JNull THEN process_content_area(content_area)
      ELSE {JNull}

\* get_manual_resmi_gazete_data on a table whose entries have distinct
\* date_added; a failing query is caught and gives None
get_manual_resmi_gazete_data(db) ==
  IF db.fails THEN JNull
  ELSE LET active == {i \in DOMAIN db.rows : db.rows[i].is_active}
       IN  IF active = {} THEN JNull
           ELSE LET first == CHOOSE i \in active : \A j \in active :
                                 db.rows[j].date_added <= db.rows[i].date_added
                    manual_entry == db.rows[first]
                IN  IF manual_entry.html_content.nodes # <<>>
                      THEN manual_entry.html_content
                    ELSE JNull

\* scrape_from_website: the outcomes it can have, given what the site does
scrape_from_website(site) ==
  IF site.kind = "exception" THEN {JNull}
  ELSE IF site.status >= ErrorStatusMin THEN {JNull}
  ELSE LET content_area == Find(site.html.nodes, "div", ContentId)
       IN  IF content_area # JNull THEN process_content_area(content_area)
           ELSE {JNull}

MaxEntries == 2

GazettePage ==
  Tag("div", ContentId, "", <<
    Tag("div", "", "html-title", <<NavigableString(<<"title">>)>>),
    Tag("div", "", "fihrist-item",
        <<Tag("a", "", "", <<NavigableString(<<"link">>)>>)>>),
    Tag("hr", "", "", <<>>),
    NavigableString(<<AppNotice>>),
    Tag("hr", "", "", <<>>) >>)

PlainPage ==
  Tag("div", ContentId, "", <<
    Tag("div", "", "html-subtitle", <<NavigableString(<<"subtitle">>)>>),
    Tag("hr", "", "", <<>>) >>)

GazetteHtmls ==
  { Html(<<>>),
    Html(<<NavigableString(<<" ">>)>>),
    Html(<<Tag("p", "", "", <<NavigableString(<<"text">>)>>)>>),
    Html(<<Tag("div", "other", "", <<>>)>>),
    Html(<<GazettePage>>),
    Html(<<Tag("body", "", "", <<Tag("p", "", "", <<>>), PlainPage>>)>>) }

ManualEntry(html, active, added) ==
  [html_content |-> html, is_active |-> active, date_added |-> added]

\* The tables of manual entries: none, one or two, added at different times.
GazetteTables ==
  { <<>> }
    \cup { <<ManualEntry(x, a, 1)>> : x \in GazetteHtmls, a \in BOOLEAN }
    \cup { <<ManualEntry(x, a, d), ManualEntry(y, b, MaxEntries + 1 - d)>> :
             x \in GazetteHtmls, a \in BOOLEAN, y \in GazetteHtmls, b \in BOOLEAN,
             d \in 1..MaxEntries }

GazetteDatabases ==
  { [fails |-> TRUE, rows |-> <<>>] }
    \cup { [fails |-> FALSE, rows |-> t] : t \in GazetteTables }

GazetteSites ==
  { [kind |-> "exception"] }
    \cup { [kind |-> "response", status |-> s, html |-> x] :
             s \in {200, 404}, x \in GazetteHtmls }

InitGazette ==
  /\ DecisionsInit
  /\ wiki = NoWiki
  /\ \E db \in GazetteDatabases, site \in GazetteSites :
       gazette = [pc |-> "called", db |-> db, site |-> site, manual_data |-> JNull,
                  manual |-> JNull, requested |-> FALSE, result |-> JNull]

\* manual_data = get_manual_resmi_gazete_data()
GetManualData ==
  /\ gazette.pc = "called"
  /\ gazette' = [gazette EXCEPT !.pc = "checked",
                                !.manual_data = get_manual_resmi_gazete_data(gazette.db)]
  /\ UNCHANGED <<decisionVars, wiki>>

\* if manual_data: return process_manual_html(manual_data)
ProcessManualHtml ==
  /\ gazette.pc = "checked"
  /\ gazette.manual_data # JNull /\ gazette.manual_data.nodes # <<>>
  /\ \E out \in process_manual_html(gazette.manual_data) :
       gazette' = [gazette EXCEPT !.pc = "done", !.manual = out, !.result = out]
  /\ UNCHANGED <<decisionVars, wiki>>

\* return scrape_from_website()
ScrapeFromWebsite ==
  /\ gazette.pc = "checked"
  /\ ~(gazette.manual_data # JNull /\ gazette.manual_data.nodes # <<>>)
  /\ \E out \in scrape_from_website(gazette.site) :
       gazette' = [gazette EXCEPT !.pc = "done", !.requested = TRUE, !.result = out]
  /\ UNCHANGED <<decisionVars, wiki>>

NextGazette == GetManualData \/ ProcessManualHtml \/ ScrapeFromWebsite

SpecGazette == InitGazette /\ [][NextGazette]_vars

MaxShown == 10          \* len(original_li_tags) <= 10
KeepLast == 3           \* original_li_tags[-3:]
SampleSize == 7         \* random.sample(pool_for_random, 7)
YearDigitsMin == 3      \* \d{3,4}
YearDigitsMax == 4

Digits == <<"0", "1", "2", "3", "4", "5", "6", "7", "8", "9">>

IsDigit(ch) == \E d \in DOMAIN Digits : Digits[d] = ch

DigitValue(ch) == (CHOOSE d \in DOMAIN Digits : Digits[d] = ch) - 1

\* li_tag.get_text(strip=True): the strings of the tag, each stripped, the
\* empty ones left out, joined
RECURSIVE get_text(_)
get_text(strings) ==
  IF strings = <<>> THEN <<>>
  ELSE Strip(Head(strings)) \o get_text(Tail(strings))

\* the greedy \d{3,4}: the digits s begins with, four at most
RECURSIVE LeadingDigits(_, _)
LeadingDigits(s, most) ==
  IF most = 0 \/ s = <<>> THEN <<>>
  ELSE IF ~IsDigit(Head(s)) THEN <<>>
  ELSE <<Head(s)>> \o LeadingDigits(Tail(s), most - 1)

\* int()
RECURSIVE ToInt(_)
ToInt(ds) ==
  IF ds = <<>> THEN 0
  ELSE 10 * ToInt(SubSeq(ds, 1, Len(ds) - 1)) + DigitValue(ds[Len(ds)])

\* Mutant: a year of two digits counts as well.
ExtractYearTwoDigits(li_tag) ==
  LET text == get_text(li_tag)
      group == LeadingDigits(LStrip(text), YearDigitsMax)
  IN  IF Len(group) >= YearDigitsMin - 1 THEN ToInt(group) ELSE 0

\* re.match(r"^\s*(\d{3,4})", text)
extract_year_from_li(li_tag) ==
  LET text == get_text(li_tag)
      group == LeadingDigits(LStrip(text), YearDigitsMax)
  IN  IF Len(group) >= YearDigitsMin THEN ToInt(group) ELSE 0

\* random.sample(pool, k): every ordered choice of k different elements
RECURSIVE Samples(_, _)
Samples(pool, k) ==
  IF k = 0 THEN {<<>>}
  ELSE LET drawn == Samples(pool, k - 1)
       IN  { Append(p[1], p[2]) :
               p \in { q \in drawn \X pool : \A j \in DOMAIN q[1] : q[1][j] # q[2] } }

\* the positions first..last in page order
RECURSIVE Slice(_, _)
Slice(first, last) ==
  IF first > last THEN <<>> ELSE <<first>> \o Slice(first + 1, last)

\* Mutant: oldest first.
RECURSIVE SortedOldestFirst(_)
SortedOldestFirst(items) ==
  IF items = <<>> THEN <<>>
  ELSE LET rest == SortedOldestFirst(SubSeq(items, 1, Len(items) - 1))
           x == items[Len(items)]
           before == SelectSeq(rest, LAMBDA y : y.year <= x.year)
           after == SelectSeq(rest, LAMBDA y : y.year > x.year)
       IN  before \o <<x>> \o after

\* sorted(items_with_years, key=lambda x: x['year'], reverse=True): a stable
\* sort, so an item goes behind the items before it that are as new or newer
RECURSIVE Sorted(_)
Sorted(items) ==
  IF items = <<>> THEN <<>>
  ELSE LET rest == Sorted(SubSeq(items, 1, Len(items) - 1))
           x == items[Len(items)]
           before == SelectSeq(rest, LAMBDA y : y.year >= x.year)
           after == SelectSeq(rest, LAMBDA y : y.year < x.year)
       IN  before \o <<x>> \o after

\* lines 194-197
ItemsWithYears(page, selected_tags) ==
  [j \in DOMAIN selected_tags |->
     [tag |-> selected_tags[j], year |-> extract_year_from_li(page[selected_tags[j]])]]

\* lines 185-192: the selections the section can make
Selections(n) ==
  IF n <= MaxShown THEN {Slice(1, n)}
  ELSE { s \o Slice(n - KeepLast + 1, n) : s \in Samples(1..(n - KeepLast), SampleSize) }

MaxItems == 11

LiTags ==
  << << <<"1", "9", "2", "3", " ", "a">> >>,
     << <<"4", "7", "6", " ", "b">> >>,
     << <<"4", "4", " ", "c">> >>,
     << <<" ", "1", "9">>, <<"2", "3", "d", " ">> >>,
     << <<"e", " ", "1", "9", "9", "9">> >>,
     << <<"1", "2", "3", "4", "5">> >> >>

\* How the tags of LiTags follow one another on a page.
PageStrides == {0, 1, Len(LiTags) - 1}

PageStarts == {0, 3}

WikiPages ==
  { [i \in 1..n |-> LiTags[(((i - 1) * a + b) % Len(LiTags)) + 1]] :
      n \in 0..MaxItems, a \in PageStrides, b \in PageStarts }

InitWiki ==
  /\ DecisionsInit
  /\ gazette = NoGazette
  /\ \E page \in WikiPages :
       wiki = [pc |-> "found", original_li_tags |-> page, selected_tags |-> <<>>,
               sorted_items |-> <<>>]

\* The body of "if ul_element:", lines 181-219.
EmitSection ==
  /\ wiki.pc = "found"
  /\ \E selected_tags \in Selections(Len(wiki.original_li_tags)) :
       wiki' = [wiki EXCEPT
                  !.pc = "emitted",
                  !.selected_tags = selected_tags,
                  !.sorted_items =
                     Sorted(ItemsWithYears(wiki.original_li_tags, selected_tags))]
  /\ UNCHANGED <<decisionVars, gazette>>

NextWiki == EmitSection

SpecWiki == InitWiki /\ [][NextWiki]_vars

\* final_li_tags_for_display, line 202
final_li_tags_for_display ==
  [j \in DOMAIN wiki.sorted_items |-> wiki.sorted_items[j].tag]

\* The set of the elements of a sequence, and the place of x in it.
Elements(s) == {s[j] : j \in DOMAIN s}

PlaceIn(s, x) == CHOOSE j \in DOMAIN s : s[j] = x

\* The text has no leading year: fewer than three characters, or one of the
\* first three is no digit.
LacksLeadingYear(text) ==
  Len(text) < YearDigitsMin \/ \E j \in 1..YearDigitsMin : ~IsDigit(text[j])

\* C26: a section's emitted list has min(n, 10) items of the n on the page:
\* all of them when n <= 10, and when n > 10 ten different ones, the last
\* three of the page and seven of the others; the emitted items stand by
\* leading year, newest first, an item without a leading year of 3 or 4
\* digits counting as year 0, and items of one year stand in the order in
\* which they were selected.
C26_SectionKeepsTenNewestFirst ==
  wiki.pc = "emitted" =>
    LET page == wiki.original_li_tags
        n == Len(page)
        items == wiki.sorted_items
        out == final_li_tags_for_display
    IN  /\ Len(out) = IF n <= MaxShown THEN n ELSE MaxShown
        /\ Cardinality(Elements(out)) = Len(out)
        /\ n <= MaxShown => Elements(out) = 1..n
        /\ n > MaxShown =>
             /\ (n - KeepLast + 1)..n \subseteq Elements(out)
             /\ Cardinality(Elements(out) \cap 1..(n - KeepLast)) = SampleSize
        /\ \A j \in DOMAIN items :
             LacksLeadingYear(get_text(page[items[j].tag])) => items[j].year = 0
        /\ \A i, j \in DOMAIN items :
             i < j => /\ items[i].year >= items[j].year
                      /\ items[i].year = items[j].year
                           => PlaceIn(wiki.selected_tags, out[i])
                                < PlaceIn(wiki.selected_tags, out[j])

\* A page of eleven items was cut to ten: two items of the year 1923 stand
\* against their order on the page, as they were drawn, and an item without
\* a leading year stands last.
C26_Witness ==
  /\ wiki.pc = "emitted" /\ Len(wiki.original_li_tags) = MaxItems
  /\ Len(wiki.sorted_items) = MaxShown
  /\ \E i, j \in DOMAIN wiki.sorted_items :
       /\ i < j /\ wiki.sorted_items[i].tag > wiki.sorted_items[j].tag
       /\ wiki.sorted_items[i].year = 1923 /\ wiki.sorted_items[j].year = 1923
  /\ wiki.sorted_items[MaxShown].year = 0
  /\ LacksLeadingYear(get_text(wiki.original_li_tags[wiki.sorted_items[MaxShown].tag]))
====
